---- MODULE Spec2Model ----
(***************************************************************************)
(* A model of the rule-engine extension: the JSON <-> Facts bridge, the    *)
(* built-in function preprocessor, the execution entry points and the      *)
(* engines they drive.                                                     *)
(*                                                                         *)
(* Strings that the code splits on '.' are modelled as sequences of        *)
(* segments: the key "A.B" is <<"A", "B">>, the key "A" is <<"A">>.        *)
(* A JSON object is the set of its leaves, each a record                   *)
(*   [path |-> <<key1, key2, ...>>, val |-> leaf]                          *)
(* (path = the object keys from the root to the leaf); a nested empty      *)
(* object is the pseudo-leaf EmptyObj.  Two JSON objects are equal exactly *)
(* when these sets are equal.                                              *)
(***************************************************************************)
EXTENDS Integers, Sequences, FiniteSets, TLC

VARIABLES
    pc,        \* position of the modelled call
    x,         \* bridge: the input JSON object
    facts,     \* bridge: the Facts store built by json_to_facts
    out,       \* bridge: what facts_to_json returned
    fnCall,    \* function library: the call made, [name, args]
    clock,     \* the wall clock (Utc::now), a day number
    res,       \* function library: the results of the calls made so far
    inp,       \* execution: the arguments, [facts, rules, goal]
    todo,      \* execution: the entry points still to be called
    pre,       \* execution: what the preprocessor produced in this call
    eng,       \* execution: the engine of the call in progress
    rets,      \* execution: what the finished calls returned
    sessions,  \* debug: GLOBAL_EVENT_STORE, the Vec of sessions
    enabled,   \* debug: DEBUG_ENABLED
    last,      \* debug: the last store operation and what it returned
    inKind,    \* execution: what kind of text the arguments are
    lock,      \* threads: the RwLock of the store, who holds it
    thr,       \* threads: each thread's operation, position and locals
    seen,      \* threads: what the finished operations returned, in order
    clients,          \* NATS pool: the number of clients in the pool
    current_index,    \* NATS pool: the round-robin counters, one per Arc cell
    requests_served,  \* NATS pool: the request counter
    req,       \* retry: the arguments of the call and the build it runs in
    attempts,  \* retry: the loop counter
    tries,     \* retry: the outcome of every attempt made so far
    slept,     \* retry: the delays slept so far
    returned,  \* retry: what the call returned, "" while it runs
    rule_definitions,  \* repository: the names in table rule_definitions
    rule_versions,     \* repository: the rows of table rule_versions
    reply      \* repository: the last call and what it returned

bridgeVars == <<x, facts, out>>
fnVars == <<fnCall, res>>
pipeVars == <<inp, todo, pre, eng, rets>>
dbgVars == <<sessions, enabled, last, inKind>>
lockVars == <<lock, thr, seen>>
poolVars == <<clients, current_index, requests_served>>
retryVars == <<req, attempts, tries, slept, returned>>
repoVars == <<rule_definitions, rule_versions, reply>>
sideVars == <<lockVars, poolVars, retryVars, repoVars>>
vars == <<pc, x, facts, out, fnCall, clock, res, inp, todo, pre, eng, rets,
          sessions, enabled, last, inKind, lock, thr, seen,
          clients, current_index, requests_served,
          req, attempts, tries, slept, returned,
          rule_definitions, rule_versions, reply>>

(***************************************************************************)
(* Bounds of the model                                                     *)
(***************************************************************************)
MaxDepth == 2          \* nesting depth of the input JSON objects
MaxEntries == 2        \* number of leaves of an input JSON object
MaxArgs == 2           \* number of arguments of a built-in call
MaxTicks == 1          \* days the wall clock advances during a run
MaxRules == 2          \* number of rules of a rule source
IterCap == 4           \* the safety cap on firings of one execution
MaxOps == 4            \* number of operations applied to the event store
MaxCalls == 2          \* number of calls in a debug scenario
MaxThreads == 2        \* threads that use the event store at the same time
MaxThreadOps == 3      \* store operations the threads start, all together
UsizeBits == 3         \* width of a usize counter, scaled down from 32 or 64
MaxClients == 3        \* clients in the NATS pool
MaxPoolCalls == 10     \* calls of get_client, all together
U64Bits == 3           \* width of the u64 of the backoff delay, scaled down from 64
MaxRetries == 4        \* largest max_retries a retry loop is called with
MaxVersions == 2       \* version numbers 1.0.0 .. 1.0.(MaxVersions - 1) of a rule

(***************************************************************************)
(* JSON values and engine Values.  A leaf is [kind, num, str]: num carries *)
(* the number (Float: in tenths), str the characters of a string.          *)
(***************************************************************************)
Leaf(k, n, s) == [kind |-> k, num |-> n, str |-> s]

JNull == Leaf("Null", 0, <<>>)
JBool(b) == Leaf("Bool", IF b THEN 1 ELSE 0, <<>>)
JInt(n) == Leaf("Int", n, <<>>)
JFloat(t) == Leaf("Float", t, <<>>)
JStr(s) == Leaf("String", 0, s)
JArr(id) == Leaf("Array", id, <<>>)
EmptyObj == Leaf("Object", 0, <<>>)

\* From<serde_json::Value> for Value: Number -> Integer when it is an i64,
\* else Number (f64); the other tags map to the tag of the same name.
JsonToValue(j) ==
    CASE j.kind = "Null" -> Leaf("VNull", 0, <<>>)
      [] j.kind = "Bool" -> Leaf("VBoolean", j.num, <<>>)
      [] j.kind = "Int" -> Leaf("VInteger", j.num, <<>>)
      [] j.kind = "Float" -> Leaf("VNumber", j.num, <<>>)
      [] j.kind = "String" -> Leaf("VString", 0, j.str)
      [] j.kind = "Array" -> Leaf("VArray", j.num, <<>>)
      [] OTHER -> Leaf("VObject", 0, <<>>)

\* A mutant of engine_value_to_json: integers come back as strings.
engine_value_to_json_IntAsString(v) ==
    CASE v.kind = "VNull" -> JNull
      [] v.kind = "VBoolean" -> Leaf("Bool", v.num, <<>>)
      [] v.kind = "VInteger" -> Leaf("String", 0, <<"1">>)
      [] v.kind = "VNumber" -> Leaf("Float", v.num, <<>>)
      [] v.kind = "VString" -> Leaf("String", 0, v.str)
      [] v.kind = "VArray" -> Leaf("Array", v.num, <<>>)
      [] v.kind = "VExpression" -> Leaf("String", 0, v.str)
      [] OTHER -> EmptyObj

\* engine_value_to_json: a Number that from_f64 rejects (NaN, infinite; kind
\* VNaN here) becomes null, an Expression becomes a string.
engine_value_to_json(v) ==
    CASE v.kind = "VNull" -> JNull
      [] v.kind = "VBoolean" -> Leaf("Bool", v.num, <<>>)
      [] v.kind = "VInteger" -> Leaf("Int", v.num, <<>>)
      [] v.kind = "VNumber" -> Leaf("Float", v.num, <<>>)
      [] v.kind = "VNaN" -> JNull
      [] v.kind = "VString" -> Leaf("String", 0, v.str)
      [] v.kind = "VArray" -> Leaf("Array", v.num, <<>>)
      [] v.kind = "VExpression" -> Leaf("String", 0, v.str)
      [] OTHER -> EmptyObj

(***************************************************************************)
(* The built-in function library (functions/*.rs).  A function takes the   *)
(* argument list and returns FOk(value) or FErr(message).  The wall clock  *)
(* the process reads through Utc::now() is the parameter now, a day number *)
(* (day 1 = 2024-01-01).  Numbers are handled in tenths, as as_f64 widens  *)
(* them: Int n is 10n tenths.                                              *)
(***************************************************************************)
FOk(v) == [ok |-> TRUE, val |-> v, err |-> ""]
FErr(m) == [ok |-> FALSE, val |-> JNull, err |-> m]

IsStr(v) == v.kind = "String"
IsF64(v) == v.kind \in {"Int", "Float"}          \* Value::as_f64 is Some
IsI64(v) == v.kind = "Int"                        \* Value::as_i64 is Some
IsU64(v) == v.kind = "Int" /\ v.num >= 0          \* Value::as_u64 is Some
AsF64(v) == IF v.kind = "Int" THEN 10 * v.num ELSE v.num

Digits == <<"0", "1", "2", "3", "4", "5", "6", "7", "8", "9">>
DigitChars == {Digits[i] : i \in 1..10}
DigitVal(c) == (CHOOSE i \in 1..10 : Digits[i] = c) - 1
LowerChars == {"a", "c", "e", "o", "s", "u"}
UpperChars == {"A", "C", "E", "O", "S", "U"}
UpperOf(c) ==
    CASE c = "a" -> "A" [] c = "c" -> "C" [] c = "e" -> "E"
      [] c = "o" -> "O" [] c = "s" -> "S" [] c = "u" -> "U" [] OTHER -> c
LowerOf(c) ==
    CASE c = "A" -> "a" [] c = "C" -> "c" [] c = "E" -> "e"
      [] c = "O" -> "o" [] c = "S" -> "s" [] c = "U" -> "u" [] OTHER -> c
LetterChars == LowerChars \cup UpperChars

\* ---- datetime.rs -------------------------------------------------------
TwoDigits(n) == <<Digits[(n \div 10) + 1], Digits[(n % 10) + 1]>>

\* NaiveDate::format("%Y-%m-%d") for the days this model covers: December
\* 2023 (day <= 0) and January 2024.
DateText(day) ==
    IF day >= 1
    THEN <<"2", "0", "2", "4", "-", "0", "1", "-">> \o TwoDigits(day)
    ELSE <<"2", "0", "2", "3", "-", "1", "2", "-">> \o TwoDigits(day + 31)

\* NaiveDate::parse_from_str(s, "%Y-%m-%d") on the same range of days
ParsesAsDate(s) == \E day \in (-30)..31 : DateText(day) = s
ParseDate(s) == CHOOSE day \in (-30)..31 : DateText(day) = s

days_since(args, now) ==
    IF Len(args) = 0 THEN FErr("DaysSince requires 1 argument: date string")
    ELSE IF ~IsStr(args[1]) THEN FErr("DaysSince: argument must be a string")
    ELSE IF ~ParsesAsDate(args[1].str) THEN FErr("Invalid date format")
    ELSE FOk(JInt(now - ParseDate(args[1].str)))

\* A mutant of add_days: the days are counted from today, not from the date.
add_days_FromToday(args, now) ==
    IF Len(args) < 2 THEN FErr("AddDays requires 2 arguments: date string, days")
    ELSE IF ~IsStr(args[1]) THEN FErr("AddDays: first argument must be a string")
    ELSE IF ~IsI64(args[2]) THEN FErr("AddDays: second argument must be a number")
    ELSE IF ~ParsesAsDate(args[1].str) THEN FErr("Invalid date format")
    ELSE FOk(JStr(DateText(now + args[2].num)))

add_days(args, now) ==
    IF Len(args) < 2 THEN FErr("AddDays requires 2 arguments: date string, days")
    ELSE IF ~IsStr(args[1]) THEN FErr("AddDays: first argument must be a string")
    ELSE IF ~IsI64(args[2]) THEN FErr("AddDays: second argument must be a number")
    ELSE IF ~ParsesAsDate(args[1].str) THEN FErr("Invalid date format")
    ELSE FOk(JStr(DateText(ParseDate(args[1].str) + args[2].num)))

RECURSIVE Strftime(_, _)
\* date.format(fmt): %Y, %m and %d are expanded, other characters copied
Strftime(fmt, text) ==
    IF fmt = <<>> THEN <<>>
    ELSE IF Len(fmt) >= 2 /\ fmt[1] = "%" /\ fmt[2] \in {"Y", "m", "d"}
    THEN (CASE fmt[2] = "Y" -> SubSeq(text, 1, 4)
            [] fmt[2] = "m" -> SubSeq(text, 6, 7)
            [] OTHER -> SubSeq(text, 9, 10)) \o Strftime(SubSeq(fmt, 3, Len(fmt)), text)
    ELSE <<Head(fmt)>> \o Strftime(Tail(fmt), text)

format_date(args, now) ==
    IF Len(args) < 2 THEN FErr("FormatDate requires 2 arguments: date string, format")
    ELSE IF ~IsStr(args[1]) THEN FErr("FormatDate: first argument must be a string")
    ELSE IF ~IsStr(args[2]) THEN FErr("FormatDate: second argument must be a string")
    ELSE IF ~ParsesAsDate(args[1].str) THEN FErr("Invalid date format")
    ELSE FOk(JStr(Strftime(args[2].str, DateText(ParseDate(args[1].str)))))

\* now.to_rfc3339(): the date, then the time of day (not modelled further)
now_fn(args, now) == FOk(JStr(DateText(now) \o <<"T">>))

today(args, now) == FOk(JStr(DateText(now)))

\* ---- string.rs ---------------------------------------------------------
EmailLocalChars == LetterChars \cup DigitChars \cup {".", "_", "%", "+", "-"}
EmailDomainChars == LetterChars \cup DigitChars \cup {".", "-"}

\* ^[a-zA-Z0-9._%+-]+@[a-zA-Z0-9.-]+\.[a-zA-Z]{2,}$
EmailMatches(s) ==
    \E i \in 2..Len(s) : \E j \in (i + 2)..(Len(s) - 2) :
        /\ s[i] = "@"
        /\ s[j] = "."
        /\ \A k \in 1..(i - 1) : s[k] \in EmailLocalChars
        /\ \A k \in (i + 1)..(j - 1) : s[k] \in EmailDomainChars
        /\ \A k \in (j + 1)..Len(s) : s[k] \in LetterChars

is_valid_email(args, now) ==
    IF Len(args) = 0 THEN FErr("IsValidEmail requires 1 argument: email string")
    ELSE IF ~IsStr(args[1]) THEN FErr("IsValidEmail: argument must be a string")
    ELSE FOk(JBool(EmailMatches(args[1].str)))

\* str::contains
HasSubstring(h, n) ==
    \E i \in 0..(Len(h) - Len(n)) : SubSeq(h, i + 1, i + Len(n)) = n

contains(args, now) ==
    IF Len(args) < 2 THEN FErr("Contains requires 2 arguments: string, substring")
    ELSE IF ~IsStr(args[1]) THEN FErr("Contains: first argument must be a string")
    ELSE IF ~IsStr(args[2]) THEN FErr("Contains: second argument must be a string")
    ELSE FOk(JBool(HasSubstring(args[1].str, args[2].str)))

\* Regex::new(pattern) for patterns over this model's characters: '(' is
\* never closed, so a pattern with it does not compile; '.' matches any
\* character and the other characters match themselves, unanchored.
RegexCompiles(p) == \A i \in 1..Len(p) : p[i] # "("
RegexIsMatch(p, t) ==
    \E i \in 0..(Len(t) - Len(p)) :
        \A k \in 1..Len(p) : p[k] = "." \/ p[k] = t[i + k]

regex_match(args, now) ==
    IF Len(args) < 2 THEN FErr("RegexMatch requires 2 arguments: string, pattern")
    ELSE IF ~IsStr(args[1]) THEN FErr("RegexMatch: first argument must be a string")
    ELSE IF ~IsStr(args[2]) THEN FErr("RegexMatch: second argument must be a string")
    ELSE IF ~RegexCompiles(args[2].str) THEN FErr("Invalid regex")
    ELSE FOk(JBool(RegexIsMatch(args[2].str, args[1].str)))

to_upper(args, now) ==
    IF Len(args) = 0 THEN FErr("ToUpper requires 1 argument: string")
    ELSE IF ~IsStr(args[1]) THEN FErr("ToUpper: argument must be a string")
    ELSE FOk(JStr([i \in 1..Len(args[1].str) |-> UpperOf(args[1].str[i])]))

to_lower(args, now) ==
    IF Len(args) = 0 THEN FErr("ToLower requires 1 argument: string")
    ELSE IF ~IsStr(args[1]) THEN FErr("ToLower: argument must be a string")
    ELSE FOk(JStr([i \in 1..Len(args[1].str) |-> LowerOf(args[1].str[i])]))

RECURSIVE TrimStart(_)
TrimStart(s) == IF s # <<>> /\ Head(s) = " " THEN TrimStart(Tail(s)) ELSE s
RECURSIVE TrimEnd(_)
TrimEnd(s) ==
    IF s # <<>> /\ s[Len(s)] = " " THEN TrimEnd(SubSeq(s, 1, Len(s) - 1)) ELSE s

trim(args, now) ==
    IF Len(args) = 0 THEN FErr("Trim requires 1 argument: string")
    ELSE IF ~IsStr(args[1]) THEN FErr("Trim: argument must be a string")
    ELSE FOk(JStr(TrimEnd(TrimStart(args[1].str))))

length(args, now) ==
    IF Len(args) = 0 THEN FErr("Length requires 1 argument: string")
    ELSE IF ~IsStr(args[1]) THEN FErr("Length: argument must be a string")
    ELSE FOk(JInt(Len(args[1].str)))

substring(args, now) ==
    IF Len(args) < 3 THEN FErr("Substring requires 3 arguments: string, start, length")
    ELSE IF ~IsStr(args[1]) THEN FErr("Substring: first argument must be a string")
    ELSE IF ~IsU64(args[2]) THEN FErr("Substring: start must be a number")
    ELSE IF ~IsU64(args[3]) THEN FErr("Substring: length must be a number")
    ELSE IF args[2].num >= Len(args[1].str) THEN FErr("Start index out of bounds")
    ELSE LET start == args[2].num
             end == IF start + args[3].num < Len(args[1].str)
                    THEN start + args[3].num ELSE Len(args[1].str)
         IN  FOk(JStr(SubSeq(args[1].str, start + 1, end)))

\* ---- math.rs -----------------------------------------------------------
AbsInt(n) == IF n < 0 THEN -n ELSE n
FloorDiv(a, b) == a \div b                  \* \div rounds down for b > 0
\* f64::round on tenths: half away from zero, to a whole number (in tenths)
RoundTenths(t) == IF t >= 0 THEN 10 * ((t + 5) \div 10)
                  ELSE -(10 * ((5 - t) \div 10))

round(args, now) ==
    IF Len(args) = 0 THEN FErr("Round requires at least 1 argument: number")
    ELSE IF ~IsF64(args[1]) THEN FErr("Round: first argument must be a number")
    ELSE IF Len(args) > 1 /\ ~IsU64(args[2])
    THEN FErr("Round: second argument must be a number")
    ELSE LET decimals == IF Len(args) > 1 THEN args[2].num ELSE 0
         IN  FOk(JFloat(IF decimals = 0 THEN RoundTenths(AsF64(args[1]))
                        ELSE AsF64(args[1])))

abs(args, now) ==
    IF Len(args) = 0 THEN FErr("Abs requires 1 argument: number")
    ELSE IF ~IsF64(args[1]) THEN FErr("Abs: argument must be a number")
    ELSE FOk(JFloat(AbsInt(AsF64(args[1]))))

RECURSIVE FoldMin(_)
FoldMin(s) == IF Len(s) = 1 THEN AsF64(s[1])
              ELSE LET m == FoldMin(Tail(s))
                   IN  IF AsF64(s[1]) < m THEN AsF64(s[1]) ELSE m
RECURSIVE FoldMax(_)
FoldMax(s) == IF Len(s) = 1 THEN AsF64(s[1])
              ELSE LET m == FoldMax(Tail(s))
                   IN  IF AsF64(s[1]) > m THEN AsF64(s[1]) ELSE m

min(args, now) ==
    IF Len(args) < 2 THEN FErr("Min requires at least 2 arguments")
    ELSE IF \E i \in 1..Len(args) : ~IsF64(args[i])
    THEN FErr("Min: all arguments must be numbers")
    ELSE FOk(JFloat(FoldMin(args)))

max(args, now) ==
    IF Len(args) < 2 THEN FErr("Max requires at least 2 arguments")
    ELSE IF \E i \in 1..Len(args) : ~IsF64(args[i])
    THEN FErr("Max: all arguments must be numbers")
    ELSE FOk(JFloat(FoldMax(args)))

floor(args, now) ==
    IF Len(args) = 0 THEN FErr("Floor requires 1 argument: number")
    ELSE IF ~IsF64(args[1]) THEN FErr("Floor: argument must be a number")
    ELSE FOk(JFloat(10 * FloorDiv(AsF64(args[1]), 10)))

ceil(args, now) ==
    IF Len(args) = 0 THEN FErr("Ceil requires 1 argument: number")
    ELSE IF ~IsF64(args[1]) THEN FErr("Ceil: argument must be a number")
    ELSE FOk(JFloat(-(10 * FloorDiv(-AsF64(args[1]), 10))))

\* the square root of t tenths, in tenths, cut to that precision
SqrtTenths(t) == CHOOSE r \in 0..(10 * t + 1) : r * r <= 10 * t /\ (r + 1) * (r + 1) > 10 * t

sqrt(args, now) ==
    IF Len(args) = 0 THEN FErr("Sqrt requires 1 argument: number")
    ELSE IF ~IsF64(args[1]) THEN FErr("Sqrt: argument must be a number")
    ELSE IF AsF64(args[1]) < 0
    THEN FErr("Sqrt: cannot take square root of negative number")
    ELSE FOk(JFloat(SqrtTenths(AsF64(args[1]))))

\* ---- json.rs -----------------------------------------------------------
\* serde_json::from_str on the scalar texts of this model
JsonTextParses(s) ==
    \/ s \in {<<"t", "r", "u", "e">>, <<"n", "u", "l", "l">>}
    \/ Len(s) = 1 /\ s[1] \in DigitChars
JsonTextValue(s) ==
    CASE s = <<"t", "r", "u", "e">> -> JBool(TRUE)
      [] s = <<"n", "u", "l", "l">> -> JNull
      [] OTHER -> JInt(DigitVal(s[1]))

\* serde_json::to_string of a value ("[..]" and "{..}" stand for the text of
\* an array and of an object)
JsonText(v) ==
    CASE v.kind = "Null" -> <<"n", "u", "l", "l">>
      [] v.kind = "Bool" -> IF v.num = 1 THEN <<"t", "r", "u", "e">>
                            ELSE <<"f", "a", "l", "s", "e">>
      [] v.kind = "Int" ->
            (IF v.num < 0 THEN <<"-">> ELSE <<>>) \o
            (IF AbsInt(v.num) < 10 THEN <<Digits[AbsInt(v.num) + 1]>>
             ELSE TwoDigits(AbsInt(v.num) % 100))
      [] v.kind = "Float" ->
            (IF v.num < 0 THEN <<"-">> ELSE <<>>) \o
            (IF AbsInt(v.num) < 100 THEN <<Digits[(AbsInt(v.num) \div 10) + 1]>>
             ELSE TwoDigits((AbsInt(v.num) \div 10) % 100)) \o
            <<".", Digits[(AbsInt(v.num) % 10) + 1]>>
      [] v.kind = "String" -> <<"\"">> \o v.str \o <<"\"">>
      [] v.kind = "Array" -> <<"[..]">>
      [] OTHER -> <<"{..}">>

json_parse(args, now) ==
    IF Len(args) = 0 THEN FErr("JsonParse requires 1 argument: JSON string")
    ELSE IF ~IsStr(args[1]) THEN FErr("JsonParse: argument must be a string")
    ELSE IF ~JsonTextParses(args[1].str) THEN FErr("Invalid JSON")
    ELSE FOk(JsonTextValue(args[1].str))

json_stringify(args, now) ==
    IF Len(args) = 0 THEN FErr("JsonStringify requires 1 argument: object")
    ELSE FOk(JStr(JsonText(args[1])))

\* Value::get(key) is None on every value that is not an object holding the
\* key; the objects of this model are opaque and hold no key.
json_get(args, now) ==
    IF Len(args) < 2 THEN FErr("JsonGet requires 2 arguments: object, path")
    ELSE IF ~IsStr(args[2]) THEN FErr("JsonGet: path must be a string")
    ELSE FErr("Key not found")

\* a one-key path sets the key when the first argument is an object
json_set(args, now) ==
    IF Len(args) < 3 THEN FErr("JsonSet requires 3 arguments: object, path, value")
    ELSE IF ~IsStr(args[2]) THEN FErr("JsonSet: path must be a string")
    ELSE IF HasSubstring(args[2].str, <<".">>)
    THEN (IF args[1].kind = "Object" THEN FErr("Key not found")
          ELSE FErr("Path is not an object"))
    ELSE IF args[1].kind = "Object" THEN FOk(Leaf("Object", 1, <<>>))
    ELSE FErr("Cannot set property on non-object")

\* ---- mod.rs ------------------------------------------------------------
FUNCTION_REGISTRY ==
    {"DaysSince", "AddDays", "FormatDate", "Now", "Today",
     "IsValidEmail", "Contains", "RegexMatch", "ToUpper", "ToLower", "Trim",
     "Length", "Substring",
     "Round", "Abs", "Min", "Max", "Floor", "Ceil", "Sqrt",
     "JsonParse", "JsonStringify", "JsonGet", "JsonSet"}

execute_function(name, args, now) ==
    CASE name = "DaysSince" -> days_since(args, now)
      [] name = "AddDays" -> add_days(args, now)
      [] name = "FormatDate" -> format_date(args, now)
      [] name = "Now" -> now_fn(args, now)
      [] name = "Today" -> today(args, now)
      [] name = "IsValidEmail" -> is_valid_email(args, now)
      [] name = "Contains" -> contains(args, now)
      [] name = "RegexMatch" -> regex_match(args, now)
      [] name = "ToUpper" -> to_upper(args, now)
      [] name = "ToLower" -> to_lower(args, now)
      [] name = "Trim" -> trim(args, now)
      [] name = "Length" -> length(args, now)
      [] name = "Substring" -> substring(args, now)
      [] name = "Round" -> round(args, now)
      [] name = "Abs" -> abs(args, now)
      [] name = "Min" -> min(args, now)
      [] name = "Max" -> max(args, now)
      [] name = "Floor" -> floor(args, now)
      [] name = "Ceil" -> ceil(args, now)
      [] name = "Sqrt" -> sqrt(args, now)
      [] name = "JsonParse" -> json_parse(args, now)
      [] name = "JsonStringify" -> json_stringify(args, now)
      [] name = "JsonGet" -> json_get(args, now)
      [] name = "JsonSet" -> json_set(args, now)
      [] OTHER -> FErr("Unknown function")

(***************************************************************************)
(* The input JSON objects                                                  *)
(***************************************************************************)
TopKeys == {<<"A">>, <<"B">>, <<"A", "B">>}     \* "A", "B", "A.B"
NestedKeys == {<<"A">>, <<"B">>}
LeafSamples == {JInt(1), JStr(<<"s">>)}

RECURSIVE PathsOfLen(_)
PathsOfLen(d) ==
    IF d = 1 THEN {<<k>> : k \in TopKeys}
    ELSE {Append(p, k) : p \in PathsOfLen(d - 1), k \in NestedKeys}

Paths == UNION {PathsOfLen(d) : d \in 1..MaxDepth}

IsPrefix(p, q) == Len(p) <= Len(q) /\ SubSeq(q, 1, Len(p)) = p

Entry(p, v) == [path |-> p, val |-> v]

Entries == {Entry(p, v) : p \in Paths, v \in LeafSamples \cup {EmptyObj}}

Compatible(t, e) ==
    \A f \in t : ~IsPrefix(f.path, e.path) /\ ~IsPrefix(e.path, f.path)

RECURSIVE Trees(_)
Trees(n) ==
    IF n = 0 THEN {{}}
    ELSE LET prev == Trees(n - 1)
         IN  prev \cup {t \cup {e} : <<t, e>> \in
                            {te \in prev \X Entries : Compatible(te[1], te[2])}}

JsonObjects == Trees(MaxEntries)

(***************************************************************************)
(* json_to_facts / flatten_and_add_to_facts                                *)
(***************************************************************************)
RECURSIVE Flat(_)
\* format!("{}.{}", prefix, key) along the path: the dotted key of a leaf
Flat(p) == IF p = <<>> THEN <<>> ELSE Head(p) \o Flat(Tail(p))

\* flatten_and_add_to_facts recurses into every object and adds a fact for
\* every non-object value: an empty object adds nothing.
FlatLeaves(j) == {e \in j : e.val.kind # "Object"}

\* The Facts stores json_to_facts can build from j.  Two leaves with the
\* same dotted key are added in the iteration order of the JSON map, which
\* this model leaves open: either value may be the one that stays.
json_to_facts(j) ==
    LET ks == {Flat(e.path) : e \in FlatLeaves(j)}
    IN  {f \in [ks -> {JsonToValue(e.val) : e \in FlatLeaves(j)}] :
            \A k \in ks : \E e \in FlatLeaves(j) :
                Flat(e.path) = k /\ f[k] = JsonToValue(e.val)}

(***************************************************************************)
(* facts_to_json / insert_nested_value                                     *)
(***************************************************************************)
\* key.split('.'): the path of single-segment keys
Parts(key) == [i \in 1..Len(key) |-> <<key[i]>>]

\* the intermediate objects insert_nested_value walks through
Ancestors(parts) == {SubSeq(parts, 1, i) : i \in 1..(Len(parts) - 1)}

\* .as_object_mut().expect(..) panics when an intermediate part holds a
\* value that is not an object
InsertPanics(result, key) ==
    \E e \in result : e.path \in Ancestors(Parts(key)) /\ e.val.kind # "Object"

\* result[parts...] = value: Map::insert replaces whatever was stored under
\* the last part, and the intermediate objects are no longer empty.
insert_nested_value(result, key, value) ==
    LET parts == Parts(key)
        target == IF Len(key) = 1 THEN <<key>> ELSE parts
    IN  {e \in result : ~IsPrefix(target, e.path)
                        /\ ~(e.path \in Ancestors(target))}
        \cup {Entry(target, value)}

Panic == [ok |-> FALSE, json |-> {}]
Ok(j) == [ok |-> TRUE, json |-> j]

\* two keys of which one is a prefix of the other meet in the same subtree
Overlap(k, o) == IsPrefix(Parts(k), Parts(o)) \/ IsPrefix(Parts(o), Parts(k))

RECURSIVE InsertAll(_, _, _)
\* the loop of facts_to_json over facts.get_all_facts(), a HashMap: every
\* iteration order is possible.  The insert of a key that overlaps no other
\* key commutes with every other insert, so the orders are enumerated
\* among the overlapping keys only.
InsertAll(result, f, keys) ==
    IF keys = {} THEN {Ok(result)}
    ELSE LET free == {k \in keys : \A o \in (DOMAIN f) \ {k} : ~Overlap(k, o)}
             next == IF free # {} THEN {CHOOSE k \in free : TRUE} ELSE keys
         IN  UNION {IF InsertPanics(result, k) THEN {Panic}
                    ELSE InsertAll(insert_nested_value(result, k,
                                       engine_value_to_json(f[k])), f, keys \ {k})
                    : k \in next}

facts_to_json(f) == InsertAll({}, f, DOMAIN f)

(***************************************************************************)
(* The round trip json_to_facts ; facts_to_json                            *)
(***************************************************************************)
NoFacts == <<>>
NoOut == [ok |-> TRUE, json |-> {}]

BridgeIdle == x = {} /\ facts = NoFacts /\ out = NoOut
FnIdle == fnCall = [name |-> "", args |-> <<>>] /\ res = <<>>
FirstDay == 5
NoGoal == [path |-> <<>>, op |-> "==", lit |-> JNull]
NoPre == [ok |-> TRUE, calls |-> <<>>, grl |-> <<>>, fv |-> {}]
NoEng == [mode |-> "", types |-> {}, cells |-> <<>>, rules |-> <<>>,
          agenda |-> {}, nextOrd |-> 0, iter |-> 0, fired |-> <<>>,
          goalSeen |-> FALSE, session |-> ""]
NoLast == [op |-> "", id |-> "", ok |-> TRUE, err |-> "", n |-> 0]
ValidInput == [facts |-> "ok", rules |-> "ok"]
NoLock == [writers |-> {}, readers |-> {}, whole |-> <<>>]
LockIdle == lock = NoLock /\ thr = <<>> /\ seen = <<>>
PoolIdle == clients = 0 /\ current_index = <<>> /\ requests_served = 0
NoCall == [kind |-> ""]
RetryIdle ==
    req = NoCall /\ attempts = 0 /\ tries = <<>> /\ slept = <<>> /\ returned = ""
NoReply == [op |-> "", name |-> "", version |-> 0, ok |-> TRUE]
RepoIdle == rule_definitions = {} /\ rule_versions = <<>> /\ reply = NoReply
SideIdle == LockIdle /\ PoolIdle /\ RetryIdle /\ RepoIdle
\* static DEBUG_ENABLED: AtomicBool = AtomicBool::new(true)
DEBUG_ENABLED_Initially == TRUE
DbgIdle ==
    /\ sessions = <<>>
    /\ enabled = DEBUG_ENABLED_Initially
    /\ last = NoLast
    /\ inKind = ValidInput

PipeIdle ==
    /\ inp = [facts |-> {}, rules |-> <<>>, goal |-> NoGoal]
    /\ todo = <<>>
    /\ pre = NoPre
    /\ eng = NoEng
    /\ rets = <<>>

MainIdle ==
    /\ BridgeIdle /\ FnIdle /\ PipeIdle /\ DbgIdle
    /\ clock = FirstDay

BridgeInit ==
    /\ SideIdle
    /\ pc = "bridge_start"
    /\ x \in JsonObjects
    /\ facts = NoFacts
    /\ out = NoOut
    /\ FnIdle /\ clock = FirstDay
    /\ PipeIdle /\ DbgIdle

JsonToFacts ==
    /\ pc = "bridge_start"
    /\ facts' \in json_to_facts(x)
    /\ pc' = "bridge_facts"
    /\ UNCHANGED <<x, out, fnVars, clock, pipeVars, dbgVars, sideVars>>

FactsToJson ==
    /\ pc = "bridge_facts"
    /\ out' \in facts_to_json(facts)
    /\ pc' = "bridge_done"
    /\ UNCHANGED <<x, facts, fnVars, clock, pipeVars, dbgVars, sideVars>>

BridgeNext == JsonToFacts \/ FactsToJson

SpecBridge == BridgeInit /\ [][BridgeNext]_vars

\* the keys of j contain no '.'
NoDottedKey(j) == \A e \in j : \A i \in 1..Len(e.path) : Len(e.path[i]) = 1
\* the leaves of j are scalars or arrays (no nested empty object)
LeavesScalarOrArray(j) == \A e \in j : e.val.kind # "Object"

\* C1 (as stated): for every JSON object whose leaves are scalars or arrays,
\* with any string keys, facts_to_json(json_to_facts(x)) is x.
C1_RoundTripAnyKeys ==
    (pc = "bridge_done" /\ LeavesScalarOrArray(x)) => out = Ok(x)

\* C1 (amended): for every JSON object whose leaves are scalars or arrays and
\* whose keys contain no '.', json_to_facts succeeds and facts_to_json of the
\* result is a JSON object equal to x.
C1_RoundTrip ==
    (pc = "bridge_done" /\ LeavesScalarOrArray(x) /\ NoDottedKey(x))
        => out = Ok(x)

\* a nested object with two leaves made the round trip
C1_Witness ==
    /\ pc = "bridge_done"
    /\ LeavesScalarOrArray(x) /\ NoDottedKey(x)
    /\ \E e \in x : Len(e.path) = 2
    /\ Cardinality(x) = 2
    /\ out = Ok(x)

\* the fact stored under key k is a leaf of the JSON object j
FactIsIn(j, f, k) ==
    \E e \in j : Flat(e.path) = k /\ e.val = engine_value_to_json(f[k])

\* C28: facts_to_json is total and lossless on every Facts store that
\* json_to_facts produces, also when one key is both a leaf and the dotted
\* prefix of another key: it does not panic and every fact is in its result,
\* whatever the order of the keys.
C28_FactsToJsonTotal ==
    pc = "bridge_done" =>
        /\ out.ok
        /\ \A k \in DOMAIN facts : FactIsIn(out.json, facts, k)

(***************************************************************************)
(* Calls of built-in functions at different times                          *)
(***************************************************************************)
ArgSamples ==
    {JStr(DateText(2)), JStr(<<"u", "@", "e", ".", "c", "o">>), JStr(<<" ", "a">>),
     JInt(1), JFloat(-15), EmptyObj}

RECURSIVE ArgListsOfLen(_)
ArgListsOfLen(n) ==
    IF n = 0 THEN {<<>>}
    ELSE {Append(l, a) : l \in ArgListsOfLen(n - 1), a \in ArgSamples}

ArgLists == UNION {ArgListsOfLen(n) : n \in 0..MaxArgs}

FnInit ==
    /\ SideIdle
    /\ pc = "fn"
    /\ fnCall \in [name : FUNCTION_REGISTRY, args : ArgLists]
    /\ clock = FirstDay
    /\ res = <<>>
    /\ BridgeIdle
    /\ PipeIdle /\ DbgIdle

\* function_call(name, args): one call of the function, at the current time
CallFunction ==
    /\ pc = "fn"
    /\ Len(res) < 2
    /\ res' = Append(res, execute_function(fnCall.name, fnCall.args, clock))
    /\ UNCHANGED <<pc, fnCall, clock, bridgeVars, pipeVars, dbgVars, sideVars>>

\* time passes between two calls
Tick ==
    /\ pc = "fn"
    /\ clock < FirstDay + MaxTicks
    /\ clock' = clock + 1
    /\ UNCHANGED <<pc, fnVars, bridgeVars, pipeVars, dbgVars, sideVars>>

FnNext == CallFunction \/ Tick

SpecFn == FnInit /\ [][FnNext]_vars

Tok(t, fn, path, val) == [t |-> t, fn |-> fn, path |-> path, val |-> val]
Kw(s) == Tok("kw", s, <<>>, JNull)
Ref(path) == Tok("ref", "", path, JNull)
Call(fn, path) == Tok("call", fn, path, JNull)
Lit(v) == Tok("lit", "", <<>>, v)
IncOf(path) == Tok("inc", "", path, JNull)          \* path + 1

\* rule "<name>" salience <sal> [no-loop] { when <lhs> <op> <rhs> then <target> = <expr>; }
Rule(name, sal, noLoop, whenKw, lhs, op, rhs, thenKw, target, expr) ==
    [name |-> name, sal |-> sal, noLoop |-> noLoop, whenKw |-> whenKw,
     lhs |-> lhs, op |-> op, rhs |-> rhs, thenKw |-> thenKw,
     target |-> target, expr |-> expr]

Mail == <<"u", "@", "e", ".", "c", "o">>

RulePool ==
    << Rule("Inc", 0, FALSE, "when ", Ref(<<"C", "n">>), ">=", JInt(0),
            "then ", <<"C", "n">>, IncOf(<<"C", "n">>)),
       Rule("IncOnce", 0, TRUE, "when ", Ref(<<"C", "n">>), ">=", JInt(0),
            "then ", <<"C", "n">>, IncOf(<<"C", "n">>)),
       Rule("Hi", 10, TRUE, "when ", Ref(<<"C", "n">>), ">=", JInt(1),
            "then ", <<"C", "a">>, Lit(JBool(TRUE))),
       Rule("Flat", 0, FALSE, "when ", Ref(<<"n">>), ">=", JInt(0),
            "then ", <<"m">>, Lit(JInt(1))),
       Rule("Mail", 0, FALSE, "when ", Call("IsValidEmail", <<"C", "e">>), "==",
            JBool(TRUE), "then ", <<"C", "a">>, Lit(JBool(TRUE))),
       Rule("Act", 0, FALSE, "when ", Ref(<<"C", "n">>), ">=", JInt(0),
            "then ", <<"C", "m">>, Call("Abs", <<"C", "n">>)),
       Rule("ActNl", 0, FALSE, "when ", Ref(<<"C", "n">>), ">=", JInt(0),
            "then\n", <<"C", "m">>, Call("Abs", <<"C", "n">>)),
       Rule("Dup", 0, FALSE, "when ", Call("IsValidEmail", <<"C", "e">>), "==",
            JBool(TRUE), "then ", <<"C", "v">>, Call("IsValidEmail", <<"C", "e">>)) >>

\* the rules of the pool that call no built-in function
PlainRules == {i \in 1..Len(RulePool) :
                  RulePool[i].lhs.t # "call" /\ RulePool[i].expr.t # "call"}

RECURSIVE RuleSeqs(_, _)
\* the sequences of n distinct rules drawn from the rules numbered in idx
RuleSeqs(idx, n) ==
    IF n = 0 THEN {<<>>}
    ELSE {Append(rs, RulePool[i]) : <<rs, i>> \in
             {ri \in RuleSeqs(idx, n - 1) \X idx :
                 \A k \in 1..Len(ri[1]) : ri[1][k] # RulePool[ri[2]]}}

RuleSets(idx) == UNION {RuleSeqs(idx, n) : n \in 1..MaxRules}

RECURSIVE SourceOf(_)
\* the source text of a sequence of rules
SourceOf(rules) ==
    IF rules = <<>> THEN <<>>
    ELSE <<Kw(Head(rules).whenKw), Head(rules).lhs,
           Kw(Head(rules).thenKw), Head(rules).expr>> \o SourceOf(Tail(rules))

\* the facts arguments: objects built from these leaves
PipeEntries ==
    {Entry(<<<<"C">>, <<"n">>>>, JInt(0)),
     Entry(<<<<"C">>, <<"n">>>>, JInt(1)),
     Entry(<<<<"C">>, <<"e">>>>, JStr(Mail)),
     Entry(<<<<"n">>>>, JInt(0)),
     Entry(<<<<"C">>, <<"P">>, <<"n">>>>, JInt(0))}

RECURSIVE PipeTrees(_)
PipeTrees(n) ==
    IF n = 0 THEN {{}}
    ELSE LET prev == PipeTrees(n - 1)
         IN  prev \cup {t \cup {e} : <<t, e>> \in
                          {te \in prev \X PipeEntries : Compatible(te[1], te[2])}}

PipeFacts == PipeTrees(MaxEntries)

(***************************************************************************)
(* The function preprocessor                                               *)
(***************************************************************************)
MinOf(S) == CHOOSE m \in S : \A o \in S : m <= o
MaxOf(S) == CHOOSE m \in S : \A o \in S : m >= o

\* grl_code.find(function_text), then rfind("when ") and rfind("then ") in
\* the text before it
is_in_when_clause(grl_code, function_text) ==
    LET occ == {p \in 1..Len(grl_code) : grl_code[p] = function_text}
    IN  IF occ = {} THEN FALSE
        ELSE LET func_pos == MinOf(occ)
                 whens == {q \in 1..(func_pos - 1) : grl_code[q] = Kw("when ")}
                 thens == {q \in 1..(func_pos - 1) : grl_code[q] = Kw("then ")}
             IN  CASE whens # {} /\ thens # {} -> MaxOf(whens) > MaxOf(thens)
                   [] whens # {} /\ thens = {} -> TRUE
                   [] OTHER -> FALSE

\* the first argument up to its first '.', when it has one: Some(parts[0])
extract_context_from_args(raw_args) ==
    IF Len(raw_args) >= 2 THEN <<raw_args[1]>> ELSE <<>>

\* name.to_lowercase()
ToLowercase(name) ==
    CASE name = "IsValidEmail" -> "isvalidemail"
      [] name = "Abs" -> "abs"
      [] OTHER -> name

\* format!("{}.{}_{}_{}", ctx, "__func", func_counter, name.to_lowercase()),
\* or the same without the context
FieldName(ctx, func_counter, name) ==
    ctx \o <<"__func_" \o ToString(func_counter) \o "_" \o ToLowercase(name)>>

RECURSIVE CallsFrom(_, _, _)
\* the loop over func_regex.captures_iter(grl_code), from position p on
CallsFrom(grl_code, p, func_counter) ==
    IF p > Len(grl_code) THEN <<>>
    ELSE IF grl_code[p].t # "call" THEN CallsFrom(grl_code, p + 1, func_counter)
    ELSE LET in_when == is_in_when_clause(grl_code, grl_code[p])
             call == [pos |-> p,
                      original_text |-> grl_code[p],
                      name |-> grl_code[p].fn,
                      raw_args |-> grl_code[p].path,
                      result_value |-> JNull,
                      in_when_clause |-> in_when,
                      computed_field |->
                          IF in_when
                          THEN FieldName(extract_context_from_args(grl_code[p].path),
                                         func_counter, grl_code[p].fn)
                          ELSE <<>>]
         IN  <<call>> \o CallsFrom(grl_code, p + 1,
                                   IF in_when THEN func_counter + 1 ELSE func_counter)

parse_function_calls(grl_code) == CallsFrom(grl_code, 1, 0)

NonEmptyObj == Leaf("Object", 1, <<>>)       \* an object with members
Unresolved == Leaf("None", 0, <<>>)

\* the value an object holds under a path of keys
ValueAt(j, p) ==
    IF \E e \in j : e.path = p THEN (CHOOSE e \in j : e.path = p).val
    ELSE IF \E e \in j : IsPrefix(p, e.path) THEN NonEmptyObj
    ELSE Unresolved

\* facts.get(field_ref) first, then the nested walk over field_ref.split('.')
resolve_field_reference(field_ref, j) ==
    IF ValueAt(j, <<field_ref>>) # Unresolved THEN ValueAt(j, <<field_ref>>)
    ELSE ValueAt(j, Parts(field_ref))

RECURSIVE Dotted(_)
\* the characters of a dotted path
Dotted(path) ==
    IF Len(path) = 1 THEN <<path[1]>>
    ELSE <<path[1], ".">> \o Dotted(Tail(path))

\* a path that resolves is passed by value; a path that does not resolve is
\* no literal either and is passed as the string of its text
parse_and_resolve_args(raw_args, j) ==
    LET v == resolve_field_reference(raw_args, j)
    IN  <<IF v # Unresolved THEN v ELSE JStr(Dotted(raw_args))>>

evaluate_function_call(call, j, now) ==
    execute_function(call.name, parse_and_resolve_args(call.raw_args, j), now)

\* obj.insert(field_name, result) on the root object
InjectTopLevel(j, field_name, result) ==
    {e \in j : e.path[1] # field_name} \cup {Entry(<<field_name>>, result)}

\* Null, Bool, Number and String print as themselves; Array and Object as nil
value_to_grl_literal(value) ==
    IF value.kind \in {"Array", "Object"} THEN JNull ELSE value

\* transformed.replace(original_text, ..) for every call in turn: an
\* occurrence is replaced by the first call that has its text
transform_grl(grl_code, function_calls) ==
    [p \in 1..Len(grl_code) |->
        IF grl_code[p].t # "call" THEN grl_code[p]
        ELSE LET first == MinOf({i \in 1..Len(function_calls) :
                                function_calls[i].original_text = grl_code[p]})
                 call == function_calls[first]
             IN  IF call.in_when_clause THEN Ref(call.computed_field)
                 ELSE Lit(value_to_grl_literal(call.result_value))]

RECURSIVE EvaluateFrom(_, _, _, _)
\* the loop of preprocess_grl_with_functions over the calls from index i on:
\* evaluate, keep the result, inject the result of a when-clause call
EvaluateFrom(calls, i, j, now) ==
    IF i > Len(calls) THEN [ok |-> TRUE, calls |-> calls, fv |-> j]
    ELSE LET r == evaluate_function_call(calls[i], j, now)
         IN  IF ~r.ok THEN [ok |-> FALSE, calls |-> calls, fv |-> j]
             ELSE EvaluateFrom(
                      [calls EXCEPT ![i].result_value = r.val], i + 1,
                      IF calls[i].in_when_clause
                      THEN InjectTopLevel(j, calls[i].computed_field, r.val)
                      ELSE j,
                      now)

preprocess_grl_with_functions(grl_code, j, now) ==
    LET function_calls == parse_function_calls(grl_code)
        ev == EvaluateFrom(function_calls, 1, j, now)
    IN  [ok |-> ev.ok, calls |-> ev.calls, fv |-> ev.fv,
         grl |-> IF ev.ok THEN transform_grl(grl_code, ev.calls) ELSE grl_code]

(***************************************************************************)
(* The rule engine.  Its code is not part of this repository; it follows   *)
(* the design's description of the agenda and of fire_all.  The store it   *)
(* works on is a map from cells to Values: in a Facts store a cell is      *)
(* <<key>>, in the RETE working memory it is <<fact type, field name>>.    *)
(***************************************************************************)
Missing == Leaf("Missing", 0, <<>>)
IsNum(v) == v.kind \in {"VInteger", "VNumber"}
Tenths(v) == IF v.kind = "VInteger" THEN 10 * v.num ELSE v.num

\* GRLParser: the rule IR of the i-th rule of the (preprocessed) source
ParseRules(rules, grl) ==
    [i \in 1..Len(rules) |->
        [rules[i] EXCEPT !.lhs = grl[4 * i - 2], !.expr = grl[4 * i]]]

\* the cell a fact path names: Facts are keyed by the whole dotted path,
\* the working memory by fact type, then by field name
CellOf(e, path) ==
    IF e.mode = "fc" THEN <<path>>
    ELSE IF Len(path) >= 2 /\ <<path[1]>> \in e.types
         THEN <<<<path[1]>>, Tail(path)>>
         ELSE <<>>

GetValue(e, path) ==
    LET c == CellOf(e, path)
    IN  IF c # <<>> /\ c \in DOMAIN e.cells THEN e.cells[c] ELSE Missing

SetValue(e, path, v) ==
    LET c == CellOf(e, path)
    IN  IF c = <<>> \/ v = Missing THEN e.cells
        ELSE [d \in (DOMAIN e.cells) \cup {c} |-> IF d = c THEN v ELSE e.cells[d]]

Compare(op, a, b) ==
    CASE op = "==" -> IF IsNum(a) /\ IsNum(b) THEN Tenths(a) = Tenths(b) ELSE a = b
      [] op = ">=" -> IsNum(a) /\ IsNum(b) /\ Tenths(a) >= Tenths(b)

OperandValue(e, tok) ==
    CASE tok.t = "lit" -> JsonToValue(tok.val)
      [] tok.t = "ref" -> GetValue(e, tok.path)
      [] tok.t = "inc" ->
            LET v == GetValue(e, tok.path)
            IN  IF ~IsNum(v) THEN Missing
                ELSE [v EXCEPT !.num = IF v.kind = "VInteger" THEN @ + 1 ELSE @ + 10]
      [] OTHER -> Missing

CondHolds(e, rule) ==
    Compare(rule.op, OperandValue(e, rule.lhs), JsonToValue(rule.rhs))

GoalHolds(e, goal) ==
    goal # NoGoal
    /\ Compare(goal.op, GetValue(e, goal.path), JsonToValue(goal.lit))

\* the fact a rule's condition matches: the first segment of its path
HandleOf(rule) == IF rule.lhs.t = "ref" THEN rule.lhs.path[1] ELSE ""

Activation(rules, i, ord) ==
    [rule |-> i, handle |-> HandleOf(rules[i]), sal |-> rules[i].sal, ord |-> ord]

\* the agenda's order: salience descending, then insertion ordinal ascending
Before(a, b) == a.sal > b.sal \/ (a.sal = b.sal /\ a.ord < b.ord)

\* the same, with the salience left out
NextActivation_Fifo(agenda) ==
    CHOOSE a \in agenda : \A b \in agenda \ {a} : a.ord < b.ord

\* step 1 of a firing: the highest-priority activation
NextActivation(agenda) ==
    CHOOSE a \in agenda : \A b \in agenda \ {a} : Before(a, b)

\* the same, with the no-loop flag ignored
NoLoopBlocks_Never(e, rules, j) == FALSE

\* step 4 of a firing: a no-loop rule is not activated again on a match it
\* has fired on
NoLoopBlocks(e, rules, j) ==
    /\ rules[j].noLoop
    /\ \E k \in 1..Len(e.fired) :
          e.fired[k].rule = j /\ e.fired[k].handle = HandleOf(rules[j])

\* insert of the facts and the rules: the activations of the rules whose
\* condition holds, in insertion order
Load(mode, types, cells, rules, goal) ==
    LET e0 == [NoEng EXCEPT !.mode = mode, !.types = types, !.cells = cells,
                            !.rules = rules]
    IN  [e0 EXCEPT !.agenda = {Activation(rules, i, i) :
                                  i \in {k \in 1..Len(rules) : CondHolds(e0, rules[k])}},
                   !.nextOrd = Len(rules) + 1,
                   !.goalSeen = GoalHolds(e0, goal)]

\* one firing of fire_all: dequeue, execute the assignment, propagate the
\* modified fact to the rules that match it
FireOne(e, rules, goal) ==
    LET a == NextActivation(e.agenda)
        r == rules[a.rule]
        cells1 == SetValue(e, r.target, OperandValue(e, r.expr))
        modified == cells1 # e.cells
        e1 == [e EXCEPT !.cells = cells1,
                        !.fired = Append(@, a),
                        !.iter = @ + 1]
        rest == e.agenda \ {a}
        touched == {j \in 1..Len(rules) :
                       modified /\ HandleOf(rules[j]) = r.target[1]}
        kept == {b \in rest : b.rule \in touched => CondHolds(e1, rules[b.rule])}
        fresh == {j \in touched :
                     /\ CondHolds(e1, rules[j])
                     /\ ~\E b \in kept : b.rule = j
                     /\ ~NoLoopBlocks(e1, rules, j)}
    IN  [e1 EXCEPT
            !.agenda = kept \cup
                {Activation(rules, j,
                            e.nextOrd + Cardinality({k \in fresh : k < j})) :
                    j \in fresh},
            !.nextOrd = @ + Cardinality(fresh),
            !.goalSeen = @ \/ GoalHolds(e1, goal)]

\* the iteration cap stopped fire_all with activations left
CapReached(e) == e.iter >= IterCap /\ e.agenda # {}

(***************************************************************************)
(* The RETE executor: working memory in, working memory out                *)
(***************************************************************************)
ObjText == <<"{", "}">>        \* value.to_string() of a nested object

\* set_typed_field: the FactValue of a field
set_typed_field(value) ==
    CASE value.kind = "String" -> Leaf("VString", 0, value.str)
      [] value.kind = "Int" -> Leaf("VInteger", value.num, <<>>)
      [] value.kind = "Float" -> Leaf("VNumber", value.num, <<>>)
      [] value.kind = "Bool" -> Leaf("VBoolean", value.num, <<>>)
      [] value.kind = "Null" -> Leaf("VNull", 0, <<>>)
      [] value.kind = "Array" -> Leaf("VArray", value.num, <<>>)
      [] value.kind = "Object" -> Leaf("VString", 0, ObjText)

\* json_to_typed_facts: one fact per top-level key, with the members of
\* the key's value as fields when that value is an object
json_to_typed_facts(j) ==
    LET fields == {<<e.path[1], e.path[2]>> : e \in {f \in j : Len(f.path) >= 2}}
    IN  [types |-> {e.path[1] : e \in j},
         cells |-> [c \in fields |->
                      LET e == CHOOSE f \in j :
                                  Len(f.path) >= 2 /\ <<f.path[1], f.path[2]>> = c
                      IN  IF Len(e.path) = 2 THEN set_typed_field(e.val)
                          ELSE set_typed_field(NonEmptyObj)]]

fact_value_to_json(value) ==
    CASE value.kind = "VString" -> JStr(value.str)
      [] value.kind = "VInteger" -> JInt(value.num)
      [] value.kind = "VNumber" -> JFloat(value.num)
      [] value.kind = "VBoolean" -> Leaf("Bool", value.num, <<>>)
      [] value.kind = "VArray" -> JArr(value.num)
      [] value.kind = "VNull" -> JNull

\* extract_facts_from_rete / typed_facts_to_json: for every handle, the
\* object of the fact's fields
extract_facts_from_rete(e) ==
    {Entry(<<c[1], c[2]>>, fact_value_to_json(e.cells[c])) : c \in DOMAIN e.cells}
    \cup {Entry(<<t>>, EmptyObj) :
             t \in {u \in e.types : ~\E c \in DOMAIN e.cells : c[1] = u}}

(***************************************************************************)
(* The backward resolver, as the design describes it                       *)
(***************************************************************************)
max_depth == 20

GoalHoldsIn(f, goal) ==
    goal.path \in DOMAIN f
    /\ Compare(goal.op, f[goal.path], JsonToValue(goal.lit))

RECURSIVE Prove(_, _, _, _, _)
\* 1. the goal holds in Facts; 2. a rule assigns the goal's path and
\* 3. its condition is provable; 4. an attempted goal is not tried again
Prove(goal, f, rules, depth, attempted) ==
    IF GoalHoldsIn(f, goal) THEN TRUE
    ELSE IF depth >= max_depth \/ goal \in attempted THEN FALSE
    ELSE \E i \in 1..Len(rules) :
            /\ rules[i].target = goal.path
            /\ rules[i].lhs.t = "ref"
            /\ Prove([path |-> rules[i].lhs.path, op |-> rules[i].op,
                      lit |-> rules[i].rhs],
                     f, rules, depth + 1, attempted \cup {goal})

query_goal_production(f, rules, goal) == Prove(goal, f, rules, 0, {})

(***************************************************************************)
(* The entry points                                                        *)
(***************************************************************************)
OkRet(j) == [ok |-> TRUE, code |-> "", json |-> j]
ErrRet(code) == [ok |-> FALSE, code |-> code, json |-> {}]

\* what a finished call leaves behind
Done(entry, ret, e) ==
    [entry |-> entry, ret |-> ret, cap |-> CapReached(e),
     goalSeen |-> e.goalSeen, fired |-> e.fired, session |-> e.session]

FactsCells(f) == [c \in {<<k>> : k \in DOMAIN f} |-> f[c[1]]]
CellsFacts(cells) == [k \in {c[1] : c \in DOMAIN cells} |-> cells[<<k>>]]

GoalPool ==
    {[path |-> <<"C", "a">>, op |-> "==", lit |-> JBool(TRUE)],
     [path |-> <<"m">>, op |-> "==", lit |-> JInt(1)]}

PipeInit ==
    /\ SideIdle
    /\ pc = "pipe_idle"
    /\ inp \in [facts : PipeFacts, rules : RuleSets(1..Len(RulePool)), goal : {NoGoal}]
    /\ todo = <<"fc", "rete">>
    /\ pre = NoPre /\ eng = NoEng /\ rets = <<>>
    /\ BridgeIdle /\ FnIdle /\ clock = FirstDay
    /\ DbgIdle

BackInit ==
    /\ SideIdle
    /\ pc = "pipe_idle"
    /\ inp \in [facts : PipeFacts, rules : RuleSets(PlainRules), goal : GoalPool]
    /\ todo = <<"prove", "fc", "rete">>
    /\ pre = NoPre /\ eng = NoEng /\ rets = <<>>
    /\ BridgeIdle /\ FnIdle /\ clock = FirstDay
    /\ DbgIdle

\* run_rule_engine_fc up to the engine's first firing: preprocess,
\* json_to_facts, parse_and_validate_rules, execute_rules
RunFcEnter ==
    /\ pc = "pipe_idle" /\ todo # <<>> /\ Head(todo) = "fc"
    /\ LET p == preprocess_grl_with_functions(SourceOf(inp.rules), inp.facts, clock)
       IN  /\ pre' = p
           /\ IF ~p.ok
              THEN /\ rets' = Append(rets, Done("fc", ErrRet("INVALID_GRL"), NoEng))
                   /\ todo' = Tail(todo)
                   /\ UNCHANGED <<pc, eng>>
              ELSE /\ \E f \in json_to_facts(p.fv) :
                        eng' = Load("fc", {}, FactsCells(f),
                                    ParseRules(inp.rules, p.grl), inp.goal)
                   /\ pc' = "pipe_firing"
                   /\ UNCHANGED <<todo, rets>>
    /\ UNCHANGED <<inp, bridgeVars, fnVars, clock, dbgVars, sideVars>>

\* run_rule_engine_rete, and run_rule_engine with debug mode off, up to
\* fire_all: preprocess, load the rules, json_to_typed_facts
RunReteEnter ==
    /\ pc = "pipe_idle" /\ todo # <<>> /\ Head(todo) = "rete"
    /\ LET p == preprocess_grl_with_functions(SourceOf(inp.rules), inp.facts, clock)
           wm == json_to_typed_facts(p.fv)
       IN  /\ pre' = p
           /\ IF ~p.ok
              THEN /\ rets' = Append(rets, Done("rete", ErrRet("INVALID_GRL"), NoEng))
                   /\ todo' = Tail(todo)
                   /\ UNCHANGED <<pc, eng>>
              ELSE /\ eng' = Load("rete", wm.types, wm.cells,
                                  ParseRules(inp.rules, p.grl), inp.goal)
                   /\ pc' = "pipe_firing"
                   /\ UNCHANGED <<todo, rets>>
    /\ UNCHANGED <<inp, bridgeVars, fnVars, clock, dbgVars, sideVars>>

\* one firing inside engine.execute / rete.fire_all
Fire ==
    /\ pc = "pipe_firing"
    /\ eng.agenda # {} /\ eng.iter < IterCap
    /\ eng' = FireOne(eng, eng.rules, inp.goal)
    /\ UNCHANGED <<pc, inp, todo, pre, rets, bridgeVars, fnVars, clock, dbgVars, sideVars>>

\* the end of run_rule_engine_fc: an error of execute is EXECUTION_FAILED,
\* otherwise the facts go through facts_to_json
RunFcReturn ==
    /\ pc = "pipe_firing" /\ eng.mode = "fc"
    /\ eng.agenda = {} \/ eng.iter >= IterCap
    /\ \E o \in facts_to_json(CellsFacts(eng.cells)) :
          rets' = Append(rets, Done("fc",
                     IF CapReached(eng) THEN ErrRet("EXECUTION_FAILED")
                     ELSE IF o.ok THEN OkRet(o.json) ELSE ErrRet("PANIC"),
                     eng))
    /\ pc' = "pipe_idle" /\ todo' = Tail(todo) /\ eng' = NoEng
    /\ UNCHANGED <<inp, pre, bridgeVars, fnVars, clock, dbgVars, sideVars>>

\* the end of execute_rules_rete: whatever fire_all returned is dropped and
\* the working memory is extracted
RunReteReturn ==
    /\ pc = "pipe_firing" /\ eng.mode = "rete"
    /\ eng.agenda = {} \/ eng.iter >= IterCap
    /\ rets' = Append(rets, Done(Head(todo), OkRet(extract_facts_from_rete(eng)), eng))
    /\ pc' = "pipe_idle" /\ todo' = Tail(todo) /\ eng' = NoEng
    /\ UNCHANGED <<inp, pre, bridgeVars, fnVars, clock, dbgVars, sideVars>>

\* can_prove_goal: json_to_facts, parse_and_validate_rules, the query
CanProve ==
    /\ pc = "pipe_idle" /\ todo # <<>> /\ Head(todo) = "prove"
    /\ \E f \in json_to_facts(inp.facts) :
          rets' = Append(rets,
                     Done("prove",
                          [ok |-> query_goal_production(f, inp.rules, inp.goal),
                           code |-> "", json |-> {}],
                          NoEng))
    /\ todo' = Tail(todo)
    /\ UNCHANGED <<pc, inp, pre, eng, bridgeVars, fnVars, clock, dbgVars, sideVars>>

PipeNext == RunFcEnter \/ RunReteEnter \/ Fire \/ RunFcReturn \/ RunReteReturn

SpecPipe == PipeInit /\ [][PipeNext]_vars

BackNext ==
    CanProve \/ RunFcEnter \/ RunReteEnter \/ Fire \/ RunFcReturn \/ RunReteReturn

SpecBack == BackInit /\ [][BackNext]_vars

(***************************************************************************)
(* Properties of the execution paths                                       *)
(***************************************************************************)
\* C2: for any facts and any rule set (no rule here has a join), the
\* forward-chaining entry point and the RETE entry point return the same
\* final facts JSON.
C2_SameFinalFacts ==
    \A k, l \in 1..Len(rets) :
        (rets[k].entry = "fc" /\ rets[l].entry = "rete") => rets[k].ret = rets[l].ret

\* C3: when the engine starts, the result of every condition-context call
\* is in the engine's facts under the call's synthetic field path, on the
\* forward-chaining path and on the RETE path.
C3_SyntheticKeyInEngineFacts ==
    (pc = "pipe_firing" /\ eng.iter = 0) =>
        \A i \in 1..Len(pre.calls) :
            pre.calls[i].in_when_clause =>
                GetValue(eng, pre.calls[i].computed_field)
                    = JsonToValue(pre.calls[i].result_value)

\* the nearest `when ` before position p is closer than the nearest `then `
NearestKeywordIsWhen(src, p) ==
    LET whens == {q \in 1..(p - 1) : src[q] = Kw("when ")}
        thens == {q \in 1..(p - 1) : src[q] = Kw("then ")}
    IN  whens # {} /\ (thens = {} \/ MaxOf(whens) > MaxOf(thens))

\* C4: every call site is classified condition-context exactly when the
\* nearest `when ` before that occurrence is closer to it than the nearest
\* `then ` before it.
C4_ClassifiedByOwnPosition ==
    \A i \in 1..Len(pre.calls) :
        pre.calls[i].in_when_clause
            = NearestKeywordIsWhen(SourceOf(inp.rules), pre.calls[i].pos)

\* every call of the source is the expression of an action
AllCallsInThen(src) == \A p \in 1..Len(src) : src[p].t = "call" => p % 4 = 0

\* C5: preprocessing a source whose calls are all in then clauses rewrites
\* every call site to a literal and returns the facts it was given.
C5_ActionCallsLeaveFacts ==
    (pre.grl # <<>> /\ pre.ok /\ AllCallsInThen(SourceOf(inp.rules))) =>
        /\ pre.fv = inp.facts
        /\ \A p \in 1..Len(pre.grl) :
              SourceOf(inp.rules)[p].t = "call" => pre.grl[p].t = "lit"

C9_CapIsAnError ==
    \A k \in 1..Len(rets) : rets[k].cap => ~rets[k].ret.ok

\* C10: when can_prove_goal returned true, forward execution from the same
\* facts and rules reached a state in which the goal holds.
C10_ProvedGoalIsReached ==
    \A k, l \in 1..Len(rets) :
        (rets[k].entry = "prove" /\ rets[k].ret.ok /\ rets[l].entry \in {"fc", "rete"})
            => rets[l].goalSeen

(***************************************************************************)
(* The debug event store: a Vec of sessions behind one lock.  Every        *)
(* operation takes the lock for its whole body, so it is one step.         *)
(***************************************************************************)
NoTime == -1                                   \* completed_at: None

\* a ReteEvent: its type, its step and the count an ExecutionCompleted carries
Event(type, step, total_rules_fired) ==
    [type |-> type, step |-> step, total_rules_fired |-> total_rules_fired]

\* ExecutionSession::new
NewSession(session_id, rules_grl, initial_facts, now) ==
    [session_id |-> session_id, started_at |-> now, completed_at |-> NoTime,
     rules_grl |-> rules_grl, initial_facts |-> initial_facts,
     events |-> <<>>, current_step |-> 0, status |-> "Running"]

\* ExecutionSession::add_event: self.events.push(event)
SessionAddEvent(s, event) == [s EXCEPT !.events = Append(@, event)]
\* ExecutionSession::next_step
SessionNextStep(s) == [s EXCEPT !.current_step = @ + 1]
\* ExecutionSession::complete
SessionComplete(s, now) == [s EXCEPT !.completed_at = now, !.status = "Completed"]
\* the same, with the status left as it is
SessionError_KeepStatus(s, now) == [s EXCEPT !.completed_at = now]
\* ExecutionSession::error
SessionError(s, now) == [s EXCEPT !.completed_at = now, !.status = "Error"]

\* sessions.iter().find(|s| s.session_id == session_id): the index of the
\* first session with the id, 0 when there is none
FindSession(ss, session_id) ==
    IF \E i \in 1..Len(ss) : ss[i].session_id = session_id
    THEN MinOf({i \in 1..Len(ss) : ss[i].session_id = session_id})
    ELSE 0

StoreOk(ss, val) == [ok |-> TRUE, err |-> "", sessions |-> ss, val |-> val]
NotFound(ss) == [ok |-> FALSE, err |-> "Session not found", sessions |-> ss, val |-> 0]

\* the same, with a session appended for an id that is not in the store
add_event_OrCreate(ss, session_id, event) ==
    LET i == FindSession(ss, session_id)
    IN  IF i = 0
        THEN NotFound(Append(ss, NewSession(session_id, <<>>, {}, 0)))
        ELSE StoreOk([ss EXCEPT ![i] = SessionAddEvent(@, event)], 0)

\* the same, with the new event put in front of the earlier ones
add_event_InFront(ss, session_id, event) ==
    LET i == FindSession(ss, session_id)
    IN  IF i = 0 THEN NotFound(ss)
        ELSE StoreOk([ss EXCEPT ![i].events = <<event>> \o @], 0)

\* EventStore::create_session: sessions.push(session), whatever the id
create_session(ss, session_id, rules_grl, initial_facts, now) ==
    StoreOk(Append(ss, NewSession(session_id, rules_grl, initial_facts, now)), 0)

\* EventStore::add_event
add_event(ss, session_id, event) ==
    LET i == FindSession(ss, session_id)
    IN  IF i = 0 THEN NotFound(ss)
        ELSE StoreOk([ss EXCEPT ![i] = SessionAddEvent(@, event)], 0)

\* EventStore::next_step
next_step(ss, session_id) ==
    LET i == FindSession(ss, session_id)
    IN  IF i = 0 THEN NotFound(ss)
        ELSE StoreOk([ss EXCEPT ![i] = SessionNextStep(@)], ss[i].current_step + 1)

\* EventStore::complete_session
complete_session(ss, session_id, now) ==
    LET i == FindSession(ss, session_id)
    IN  IF i = 0 THEN NotFound(ss)
        ELSE StoreOk([ss EXCEPT ![i] = SessionComplete(@, now)], 0)

\* EventStore::error_session
error_session(ss, session_id, now) ==
    LET i == FindSession(ss, session_id)
    IN  IF i = 0 THEN NotFound(ss)
        ELSE StoreOk([ss EXCEPT ![i] = SessionError(@, now)], 0)

\* EventStore::get_session: a clone of the session, the store as it was
get_session(ss, session_id) ==
    LET i == FindSession(ss, session_id)
    IN  IF i = 0 THEN NotFound(ss) ELSE StoreOk(ss, i)

\* Vec::remove(index)
RemoveAt(ss, k) ==
    [i \in 1..(Len(ss) - 1) |-> IF i < k THEN ss[i] ELSE ss[i + 1]]

\* EventStore::delete_session
delete_session(ss, session_id) ==
    LET i == FindSession(ss, session_id)
    IN  IF i = 0 THEN NotFound(ss) ELSE StoreOk(RemoveAt(ss, i), 0)

\* EventStore::clear_all
clear_all(ss) == StoreOk(<<>>, 0)

(***************************************************************************)
(* Calls of the store operations in any order                              *)
(***************************************************************************)
SessionIds == {"s1", "s2"}
EventTypes == {"RuleFired", "FactModified"}
StoreInit ==
    /\ SideIdle
    /\ pc = "store"
    /\ sessions = <<>>
    /\ last = NoLast
    /\ enabled = DEBUG_ENABLED_Initially /\ inKind = ValidInput
    /\ BridgeIdle /\ FnIdle /\ PipeIdle
    /\ clock = FirstDay

\* the result of an operation becomes the state of the store
Apply(op, id, r) ==
    /\ pc = "store"
    /\ last.n < MaxOps
    /\ sessions' = r.sessions
    /\ last' = [op |-> op, id |-> id, ok |-> r.ok, err |-> r.err, n |-> last.n + 1]
    /\ UNCHANGED <<pc, clock, enabled, inKind, bridgeVars, fnVars, pipeVars, sideVars>>

CreateSession ==
    \E id \in SessionIds : Apply("create_session", id,
                                 create_session(sessions, id, <<>>, {}, clock))
AddEvent ==
    \E id \in SessionIds : \E t \in EventTypes :
        Apply("add_event", id, add_event(sessions, id, Event(t, 0, 0)))
NextStep ==
    \E id \in SessionIds : Apply("next_step", id, next_step(sessions, id))
CompleteSession ==
    \E id \in SessionIds :
        Apply("complete_session", id, complete_session(sessions, id, clock))
ErrorSession ==
    \E id \in SessionIds :
        Apply("error_session", id, error_session(sessions, id, clock))
GetSession ==
    \E id \in SessionIds : Apply("get_session", id, get_session(sessions, id))
DeleteSession ==
    \E id \in SessionIds : Apply("delete_session", id, delete_session(sessions, id))
ClearAll == Apply("clear_all", "", clear_all(sessions))

\* time passes between two operations
StoreTick ==
    /\ pc = "store"
    /\ clock < FirstDay + MaxTicks
    /\ clock' = clock + 1
    /\ UNCHANGED <<pc, dbgVars, bridgeVars, fnVars, pipeVars, sideVars>>

StoreNext ==
    CreateSession \/ AddEvent \/ NextStep \/ CompleteSession \/ ErrorSession
    \/ GetSession \/ DeleteSession \/ ClearAll \/ StoreTick

SpecStore == StoreInit /\ [][StoreNext]_vars

\* the operations that take a session id and look the session up
LooksUp == {"add_event", "next_step", "complete_session", "error_session",
            "get_session", "delete_session"}

\* an operation was applied in this step
Applied == last' # last

\* C12: once complete_session or error_session has been applied to a
\* session, no later add_event, complete_session or error_session changes
\* its events, its status or its completed_at.
C12_FinishedSessionIsFrozen ==
    [][\A i \in 1..Len(sessions) :
          (/\ Applied
           /\ last'.op \in {"add_event", "complete_session", "error_session"}
           /\ sessions[i].status # "Running")
          => /\ sessions'[i].events = sessions[i].events
             /\ sessions'[i].status = sessions[i].status
             /\ sessions'[i].completed_at = sessions[i].completed_at]_vars

\* every session of s is still in t, at the same place, with its events
\* as a prefix of what it has in t
KeepsEvents(s, t) ==
    /\ Len(t) >= Len(s)
    /\ \A i \in 1..Len(s) :
          /\ t[i].session_id = s[i].session_id
          /\ IsPrefix(s[i].events, t[i].events)

\* C13: while a session exists its events only grow at the end: an
\* operation either removes whole sessions or leaves the events of every
\* session a prefix of what they are afterwards, and a successful add_event
\* appends exactly one event to one session.
C13_AppendOnly ==
    [][/\ \/ KeepsEvents(sessions, sessions')
          \/ \E k \in 1..Len(sessions) : sessions' = RemoveAt(sessions, k)
          \/ sessions' = <<>>
       /\ (Applied /\ last'.op = "add_event" /\ last'.ok) =>
             \E i \in 1..Len(sessions) :
                /\ Len(sessions'[i].events) = Len(sessions[i].events) + 1
                /\ IsPrefix(sessions[i].events, sessions'[i].events)
                /\ \A j \in 1..Len(sessions) : j # i => sessions'[j] = sessions[j]]_vars

\* a second event was appended behind the first
C13_Witness ==
    /\ last.op = "add_event" /\ last.ok
    /\ \E i \in 1..Len(sessions) :
          /\ Len(sessions[i].events) = 2
          /\ sessions[i].events[1].type = "RuleFired"
          /\ sessions[i].events[2].type = "FactModified"

\* C14: all the sessions in the store have pairwise distinct ids.
C14_DistinctIds ==
    \A i, j \in 1..Len(sessions) :
        i # j => sessions[i].session_id # sessions[j].session_id

\* C15: an operation that looks up an id that is not in the store returns
\* 'Session not found' and leaves the store as it was.
C15_UnknownIdChangesNothing ==
    [][(Applied /\ last'.op \in LooksUp /\ FindSession(sessions, last'.id) = 0)
          => /\ ~last'.ok
             /\ last'.err = "Session not found"
             /\ sessions' = sessions]_vars

\* delete_session of an unknown id failed while the store held a session
\* with an event and a step taken
C15_Witness ==
    /\ last.op = "delete_session" /\ ~last.ok
    /\ last.err = "Session not found"
    /\ Len(sessions) = 1
    /\ sessions[1].session_id # last.id
    /\ Len(sessions[1].events) = 1
    /\ sessions[1].current_step = 1

(***************************************************************************)
(* Debug executions.  The arguments of a call are texts: inKind says what  *)
(* kind of text the facts and the rules are, inp holds what they say when  *)
(* they can be read.                                                       *)
(***************************************************************************)
FactsKinds == {"ok", "empty", "oversize", "malformed", "nonobject"}
RulesKinds == {"ok", "empty", "oversize", "syntax"}

\* check_not_empty, check_size_limit
validate_facts_input(kind) == kind \notin {"empty", "oversize"}
validate_rules_input(kind) == kind \notin {"empty", "oversize"}
\* serde_json::from_str
ParsesAsJson(kind) == kind \notin {"empty", "malformed"}
\* json_to_facts of the text: Invalid JSON syntax, or not a JSON object
JsonToFactsOk(kind) == ParsesAsJson(kind) /\ kind # "nonobject"
\* parse_and_validate_rules: a syntax error, or no rule found
ParsesAsRules(kind) == kind \in {"ok", "oversize"}

\* what the preprocessor is given
SourceText == IF inKind.rules = "empty" THEN <<>> ELSE SourceOf(inp.rules)
FactsValue == IF inKind.facts \in {"ok", "oversize"} THEN inp.facts ELSE {}

\* the early returns of run_rule_engine with debug mode on: the error code,
\* "" when the call goes on to execute_rules_debug
MainRejects(kind, p) ==
    IF ~validate_facts_input(kind.facts) THEN "EMPTY_FACTS"
    ELSE IF ~validate_rules_input(kind.rules) THEN "EMPTY_RULES"
    ELSE IF ~ParsesAsJson(kind.facts) THEN "INVALID_JSON"
    ELSE IF ~p.ok THEN "INVALID_GRL"
    ELSE IF ~JsonToFactsOk(kind.facts) THEN "INVALID_JSON"
    ELSE IF ~ParsesAsRules(kind.rules) THEN "INVALID_GRL"
    ELSE ""

\* the early returns of run_rule_engine with debug mode off
NormalRejects(kind, p) ==
    IF ~validate_facts_input(kind.facts) THEN "EMPTY_FACTS"
    ELSE IF ~validate_rules_input(kind.rules) THEN "EMPTY_RULES"
    ELSE IF ~ParsesAsJson(kind.facts) THEN "INVALID_JSON"
    ELSE IF ~p.ok THEN "INVALID_GRL"
    ELSE IF ~ParsesAsRules(kind.rules) \/ ~JsonToFactsOk(kind.facts)
         THEN "EXECUTION_FAILED"
    ELSE ""

\* the early returns of run_rule_engine_debug: json_to_facts and
\* parse_and_validate_rules of the arguments, then the preprocessor
DebugApiRejects(kind, p) ==
    IF ~JsonToFactsOk(kind.facts) THEN "INVALID_JSON"
    ELSE IF ~ParsesAsRules(kind.rules) THEN "INVALID_GRL"
    ELSE IF ~p.ok THEN "INVALID_GRL"
    ELSE ""

\* the rules read from a source text; none when the text has no rule to read
ParsedRules(grl) ==
    IF ParsesAsRules(inKind.rules) /\ Len(grl) = 4 * Len(inp.rules)
    THEN ParseRules(inp.rules, grl) ELSE <<>>

\* the same, with the store left as execute_rules_debug made it
ShortCircuit_Late(code, ss, started) == started

\* an early return comes before execute_rules_debug: the store stays as it is
ShortCircuit(code, ss, started) == IF code # "" THEN ss ELSE started

\* format!("session_{}", Uuid::new_v4()): an id no session has
NewSessionId(ss) == "session_" \o ToString(Len(ss) + 1)

\* facts_to_json of debug_executor.rs: one member per fact, under its key
debug_facts_to_json(f) == {Entry(<<k>>, engine_value_to_json(f[k])) : k \in DOMAIN f}

\* add_rule refuses a rule whose name the knowledge base already has
AddRuleFails(rules) ==
    \E i \in 1..Len(rules) : \E k \in 1..(i - 1) : rules[k].name = rules[i].name

\* execute_rules_debug up to engine.execute: create the session, record
\* ExecutionStarted, add the rules
StartDebug(ss, sid, rules_grl, f, rules, now) ==
    LET s1 == create_session(ss, sid, rules_grl, debug_facts_to_json(f), now).sessions
        s2 == add_event(s1, sid, Event("ExecutionStarted", 0, 0)).sessions
        s3 == add_event(s2, sid, Event("ExecutionError", 0, 0)).sessions
    IN  IF AddRuleFails(rules)
        THEN [ok |-> FALSE, sessions |-> error_session(s3, sid, now).sessions]
        ELSE [ok |-> TRUE, sessions |-> s2]

\* execute_rules_debug after engine.execute: the terminal event, with
\* total_rules_fired: 0, and the status
FinishDebug(ss, sid, failed, now) ==
    LET st == next_step(ss, sid)
    IN  IF failed
        THEN error_session(
                 add_event(st.sessions, sid, Event("ExecutionError", st.val, 0)).sessions,
                 sid, now).sessions
        ELSE complete_session(
                 add_event(st.sessions, sid, Event("ExecutionCompleted", st.val, 0)).sessions,
                 sid, now).sessions

DebugPool == {1, 5}       \* Inc and Mail
DebugFacts ==
    {{}, {Entry(<<<<"C">>, <<"n">>>>, JInt(1)), Entry(<<<<"C">>, <<"e">>>>, JStr(Mail))}}

RECURSIVE RuleLists(_, _)
\* the sequences of n rules drawn from the rules numbered in idx
RuleLists(idx, n) ==
    IF n = 0 THEN {<<>>}
    ELSE {Append(rs, RulePool[i]) : rs \in RuleLists(idx, n - 1), i \in idx}

RECURSIVE CallLists(_)
CallLists(n) ==
    IF n = 0 THEN {<<>>}
    ELSE {Append(cs, c) : cs \in CallLists(n - 1),
                           c \in {"enable", "disable", "main", "dbg"}}

DebugInit ==
    /\ SideIdle
    /\ pc = "pipe_idle"
    /\ inp \in [facts : DebugFacts,
                rules : UNION {RuleLists(DebugPool, n) : n \in 1..MaxRules},
                goal : {NoGoal}]
    /\ inKind \in {[facts |-> k, rules |-> "ok"] : k \in FactsKinds}
                  \cup {[facts |-> "ok", rules |-> k] : k \in RulesKinds}
    /\ todo \in UNION {CallLists(n) : n \in 1..MaxCalls}
    /\ pre = NoPre /\ eng = NoEng /\ rets = <<>>
    /\ sessions = <<>> /\ enabled = DEBUG_ENABLED_Initially /\ last = NoLast
    /\ BridgeIdle /\ FnIdle /\ clock = FirstDay

\* debug_enable()
DebugEnable ==
    /\ pc = "pipe_idle" /\ todo # <<>> /\ Head(todo) = "enable"
    /\ enabled' = TRUE
    /\ rets' = Append(rets, Done("enable", OkRet({}), NoEng))
    /\ todo' = Tail(todo)
    /\ UNCHANGED <<pc, inp, pre, eng, sessions, last, inKind, bridgeVars, fnVars, clock, sideVars>>

\* debug_disable()
DebugDisable ==
    /\ pc = "pipe_idle" /\ todo # <<>> /\ Head(todo) = "disable"
    /\ enabled' = FALSE
    /\ rets' = Append(rets, Done("disable", OkRet({}), NoEng))
    /\ todo' = Tail(todo)
    /\ UNCHANGED <<pc, inp, pre, eng, sessions, last, inKind, bridgeVars, fnVars, clock, sideVars>>

\* run_rule_engine up to engine.execute / fire_all.  With debug mode on:
\* validate, parse the facts, preprocess, json_to_facts, parse the rules of
\* the preprocessed source, execute_rules_debug.  With debug mode off: the
\* RETE path of run_rule_engine_rete.
RunMainEnter ==
    /\ pc = "pipe_idle" /\ todo # <<>> /\ Head(todo) = "main"
    /\ LET p == preprocess_grl_with_functions(SourceText, FactsValue, clock)
           sid == NewSessionId(sessions)
           rules == ParsedRules(p.grl)
           wm == json_to_typed_facts(p.fv)
       IN  /\ pre' = p
           /\ IF enabled
              THEN \E f \in json_to_facts(p.fv) :
                     LET code == MainRejects(inKind, p)
                         st == StartDebug(sessions, sid, p.grl, f, rules, clock)
                     IN  /\ sessions' = ShortCircuit(code, sessions, st.sessions)
                         /\ IF code # ""
                            THEN /\ rets' = Append(rets, Done("main", ErrRet(code), NoEng))
                                 /\ todo' = Tail(todo)
                                 /\ UNCHANGED <<pc, eng>>
                            ELSE IF ~st.ok
                            THEN /\ rets' = Append(rets,
                                        Done("main", ErrRet("EXECUTION_FAILED"),
                                             [NoEng EXCEPT !.session = sid]))
                                 /\ todo' = Tail(todo)
                                 /\ UNCHANGED <<pc, eng>>
                            ELSE /\ eng' = [Load("fc", {}, FactsCells(f), rules, inp.goal)
                                              EXCEPT !.session = sid]
                                 /\ pc' = "pipe_firing"
                                 /\ UNCHANGED <<todo, rets>>
              ELSE LET code == NormalRejects(inKind, p)
                   IN  /\ UNCHANGED sessions
                       /\ IF code # ""
                          THEN /\ rets' = Append(rets, Done("main", ErrRet(code), NoEng))
                               /\ todo' = Tail(todo)
                               /\ UNCHANGED <<pc, eng>>
                          ELSE /\ eng' = Load("rete", wm.types, wm.cells, rules, inp.goal)
                               /\ pc' = "pipe_firing"
                               /\ UNCHANGED <<todo, rets>>
    /\ UNCHANGED <<inp, enabled, last, inKind, bridgeVars, fnVars, clock, sideVars>>

\* run_rule_engine_debug up to engine.execute: json_to_facts of the
\* argument, parse the rules of the argument, preprocess, json_to_facts of
\* the preprocessed facts, execute_rules_debug with the rules parsed before
RunDebugApiEnter ==
    /\ pc = "pipe_idle" /\ todo # <<>> /\ Head(todo) = "dbg"
    /\ LET p == preprocess_grl_with_functions(SourceText, FactsValue, clock)
           sid == NewSessionId(sessions)
           rules == ParsedRules(SourceText)
       IN  /\ pre' = p
           /\ \E f \in json_to_facts(p.fv) :
                LET code == DebugApiRejects(inKind, p)
                    st == StartDebug(sessions, sid, p.grl, f, rules, clock)
                IN  /\ sessions' = ShortCircuit(code, sessions, st.sessions)
                    /\ IF code # ""
                       THEN /\ rets' = Append(rets, Done("dbg", ErrRet(code), NoEng))
                            /\ todo' = Tail(todo)
                            /\ UNCHANGED <<pc, eng>>
                       ELSE IF ~st.ok
                       THEN /\ rets' = Append(rets,
                                   Done("dbg", ErrRet("EXECUTION_FAILED"),
                                        [NoEng EXCEPT !.session = sid]))
                            /\ todo' = Tail(todo)
                            /\ UNCHANGED <<pc, eng>>
                       ELSE /\ eng' = [Load("fc", {}, FactsCells(f), rules, inp.goal)
                                         EXCEPT !.session = sid]
                            /\ pc' = "pipe_firing"
                            /\ UNCHANGED <<todo, rets>>
    /\ UNCHANGED <<inp, enabled, last, inKind, bridgeVars, fnVars, clock, sideVars>>

\* the end of execute_rules_debug and of its caller: the terminal event and
\* the status of the session, then facts_to_json of the final facts
RunDebugReturn ==
    /\ pc = "pipe_firing" /\ eng.session # ""
    /\ eng.agenda = {} \/ eng.iter >= IterCap
    /\ sessions' = FinishDebug(sessions, eng.session, CapReached(eng), clock)
    /\ \E o \in facts_to_json(CellsFacts(eng.cells)) :
          rets' = Append(rets, Done(Head(todo),
                     IF CapReached(eng) THEN ErrRet("EXECUTION_FAILED")
                     ELSE IF o.ok THEN OkRet(o.json) ELSE ErrRet("PANIC"),
                     eng))
    /\ pc' = "pipe_idle" /\ todo' = Tail(todo) /\ eng' = NoEng
    /\ UNCHANGED <<inp, pre, enabled, last, inKind, bridgeVars, fnVars, clock, sideVars>>

DebugNext ==
    \/ DebugEnable
    \/ DebugDisable
    \/ RunMainEnter
    \/ RunDebugApiEnter
    \/ Fire
    \/ RunDebugReturn
    \/ RunReteReturn

SpecDebug == DebugInit /\ [][DebugNext]_vars

(***************************************************************************)
(* Properties of debug executions                                          *)
(***************************************************************************)
\* the calls that went into execute_rules_debug and have returned
DebugRuns == {k \in 1..Len(rets) : rets[k].session # ""}
\* the session a returned call created
SessionOfRun(k) == sessions[FindSession(sessions, rets[k].session)]
EventsOfType(s, types) == {j \in 1..Len(s.events) : s.events[j].type \in types}

\* C11: in a debug execution every rule firing appends one RuleFired event
\* to the session, and the number of RuleFired events is the
\* total_rules_fired of the ExecutionCompleted event.
C11_OneEventPerFiring ==
    \A k \in DebugRuns :
        /\ FindSession(sessions, rets[k].session) # 0
        /\ Cardinality(EventsOfType(SessionOfRun(k), {"RuleFired"}))
              = Len(rets[k].fired)
        /\ \A j \in EventsOfType(SessionOfRun(k), {"ExecutionCompleted"}) :
              SessionOfRun(k).events[j].total_rules_fired
                 = Cardinality(EventsOfType(SessionOfRun(k), {"RuleFired"}))

\* C16: when execute_rules_debug has returned, its session is in the store
\* and not Running, its first event is ExecutionStarted, its only terminal
\* event is its last event; a success ends in ExecutionCompleted with status
\* Completed, a rule-addition or engine failure in ExecutionError with
\* status Error and an error for the caller.
C16_SessionIsClosed ==
    \A k \in DebugRuns :
        /\ FindSession(sessions, rets[k].session) # 0
        /\ LET s == SessionOfRun(k)
               n == Len(s.events)
               failed == rets[k].ret.code = "EXECUTION_FAILED"
           IN  /\ s.status # "Running"
               /\ n >= 2
               /\ s.events[1].type = "ExecutionStarted"
               /\ EventsOfType(s, {"ExecutionCompleted", "ExecutionError"}) = {n}
               /\ failed => /\ s.events[n].type = "ExecutionError"
                            /\ s.status = "Error"
                            /\ ~rets[k].ret.ok
               /\ ~failed => /\ s.events[n].type = "ExecutionCompleted"
                             /\ s.status = "Completed"

\* a debug execution whose engine stopped at its cap has returned an error
\* and its session is closed by an ExecutionError
C16_Witness ==
    \E k \in DebugRuns :
        /\ rets[k].cap
        /\ ~rets[k].ret.ok
        /\ FindSession(sessions, rets[k].session) # 0
        /\ SessionOfRun(k).status = "Error"
        /\ Len(SessionOfRun(k).events) = 2

\* C17: the session of a debug execution records the rule source as the
\* caller supplied it, and the facts as the engine was given them, whatever
\* the rules did to the facts afterwards.
C17_RecordsOriginalSource ==
    \A k \in DebugRuns :
        FindSession(sessions, rets[k].session) # 0
           => /\ SessionOfRun(k).rules_grl = SourceOf(inp.rules)
              /\ \E f \in json_to_facts(pre.fv) :
                    SessionOfRun(k).initial_facts = debug_facts_to_json(f)

InputErrors == {"EMPTY_FACTS", "EMPTY_RULES", "INVALID_JSON", "INVALID_GRL"}
\* this step is a return of run_rule_engine or run_rule_engine_debug
Returned == Len(rets') = Len(rets) + 1 /\ rets'[Len(rets')].entry \in {"main", "dbg"}

\* C18: a call of run_rule_engine with debug mode on, or of
\* run_rule_engine_debug, that fails with an input error or a rule syntax
\* error leaves the event store as it was.
C18_InputErrorLeavesStore ==
    [][(Returned /\ enabled /\ rets'[Len(rets')].ret.code \in InputErrors)
          => sessions' = sessions]_vars

\* run_rule_engine_debug has recorded a session and the next call, with the
\* same arguments, was refused by run_rule_engine for its input
C18_Witness ==
    /\ Len(rets) = 2
    /\ rets[1].session # ""
    /\ rets[2].entry = "main" /\ rets[2].ret.code \in InputErrors
    /\ enabled
    /\ Len(sessions) = 1

\* the returns of debug_enable and debug_disable before the k-th return
TogglesBefore(k) == {j \in 1..(k - 1) : rets[j].entry \in {"enable", "disable"}}

\* C19: run_rule_engine takes the debug path, creating a session, exactly
\* when debug_enable() has been called and not undone since; before any
\* debug_enable() it creates no session.
C19_DebugOnlyWhenEnabled ==
    \A k \in 1..Len(rets) :
        (rets[k].entry = "main" /\ rets[k].ret.code \notin InputErrors)
           => (rets[k].session # ""
                  <=> /\ TogglesBefore(k) # {}
                      /\ rets[MaxOf(TogglesBefore(k))].entry = "enable")

\* C20: the rules an entry point executes are the rules parsed from the
\* preprocessed source.
C20_ExecutesPreprocessedRules ==
    pc = "pipe_firing" => eng.rules = ParseRules(inp.rules, pre.grl)

(***************************************************************************)
(* Error codes of run_rule_engine                                          *)
(***************************************************************************)
\* the returns of run_rule_engine in a run whose facts or rules are longer
\* than MAX_INPUT_SIZE
OversizeReturns ==
    {k \in 1..Len(rets) : /\ rets[k].entry = "main"
                          /\ "oversize" \in {inKind.facts, inKind.rules}}

\* C21: facts or rules over the 1 MB cap are refused with the
\* input-too-large code, which is neither the code for empty facts nor the
\* code for empty rules.
C21_OversizeHasItsOwnCode ==
    \A k \in OversizeReturns :
        /\ ~rets[k].ret.ok
        /\ rets[k].ret.code \notin {"EMPTY_FACTS", "EMPTY_RULES"}

\* the returns of run_rule_engine in a run whose facts are a JSON object and
\* whose rule source does not parse
SyntaxErrorReturns ==
    {k \in 1..Len(rets) : /\ rets[k].entry = "main"
                          /\ inKind = [facts |-> "ok", rules |-> "syntax"]}

\* C22: for JSON-object facts and a rule source that does not parse,
\* run_rule_engine returns the code INVALID_GRL, with debug mode on and
\* with debug mode off.
C22_SyntaxErrorIsInvalidGrl ==
    \A k \in SyntaxErrorReturns :
        ~rets[k].ret.ok /\ rets[k].ret.code = "INVALID_GRL"

(***************************************************************************)
(* Argument checks of the built-in functions                               *)
(***************************************************************************)
\* the numbers of arguments a built-in takes, as its error message and its
\* usage line state them: "requires 1 argument", "requires at least 2"
AcceptedArity(name) ==
    CASE name \in {"Now", "Today"} -> {0}
      [] name \in {"DaysSince", "IsValidEmail", "ToUpper", "ToLower", "Trim",
                   "Length", "Abs", "Floor", "Ceil", "Sqrt", "JsonParse",
                   "JsonStringify"} -> {1}
      [] name \in {"AddDays", "FormatDate", "Contains", "RegexMatch", "JsonGet"} -> {2}
      [] name \in {"Substring", "JsonSet"} -> {3}
      [] name = "Round" -> {1, 2}
      [] name \in {"Min", "Max"} -> {n \in 0..MaxArgs : n >= 2}

\* C23: a call of a built-in with a number of arguments the function does
\* not accept returns an error and no value.
C23_ValidatesArity ==
    \A i \in 1..Len(res) :
        Len(fnCall.args) \notin AcceptedArity(fnCall.name)
           => ~res[i].ok /\ res[i].val = JNull

(***************************************************************************)
(* The event store under threads.  Every operation of EventStore takes     *)
(* self.sessions.write() or self.sessions.read() first and keeps the guard *)
(* until it returns; what it does in between is a sequence of single       *)
(* reads and writes of the session's fields.                               *)
(***************************************************************************)
Threads == 1..MaxThreads
WriteOps == {"add_event", "next_step", "complete_session", "error_session"}
ReadOps == {"get_session", "get_all_sessions"}
IdleThread == [op |-> "", at |-> 0, tmp |-> 0, snap |-> <<>>, whole |-> <<>>]

\* what an operation does while it holds the guard
Program(op) ==
    CASE op = "add_event" -> <<"push">>
      [] op = "next_step" -> <<"load", "store", "return">>
      [] op = "complete_session" -> <<"completed_at", "Completed">>
      [] op = "error_session" -> <<"completed_at", "Error">>
      [] op = "get_session" -> <<"clone">>
      [] op = "get_all_sessions" -> <<"clone_all">>

\* the same, whoever holds the lock
CanRead_Always(l) == TRUE
CanWrite_Always(l) == TRUE

\* RwLock::read blocks while a writer holds the lock
CanRead(l) == l.writers = {}
\* RwLock::write blocks while anyone holds the lock
CanWrite(l) == l.writers = {} /\ l.readers = {}

\* one read or write of the session at index i by thread record th
MicroStep(ss, i, th, now) ==
    LET what == Program(th.op)[th.at]
        next == [th EXCEPT !.at = @ + 1]
    IN  CASE what = "push" ->
               [ss |-> [ss EXCEPT ![i] = SessionAddEvent(@, Event("RuleFired", 0, 0))],
                th |-> next]
          [] what = "load" ->
               [ss |-> ss, th |-> [next EXCEPT !.tmp = ss[i].current_step]]
          [] what = "store" ->
               [ss |-> [ss EXCEPT ![i].current_step = th.tmp + 1], th |-> next]
          [] what = "return" ->
               [ss |-> ss, th |-> [next EXCEPT !.tmp = ss[i].current_step]]
          [] what = "completed_at" ->
               [ss |-> [ss EXCEPT ![i].completed_at = now], th |-> next]
          [] what \in {"Completed", "Error"} ->
               [ss |-> [ss EXCEPT ![i].status = what], th |-> next]
          [] what = "clone" ->
               [ss |-> ss, th |-> [next EXCEPT !.snap = <<ss[i]>>]]
          [] what = "clone_all" ->
               [ss |-> ss, th |-> [next EXCEPT !.snap = ss]]

\* a store in which execute_rules_debug has created the session s1
LockInit ==
    /\ pc = "threads"
    /\ sessions = <<NewSession("s1", <<>>, {}, FirstDay)>>
    /\ lock = [NoLock EXCEPT !.whole = sessions]
    /\ thr = [t \in Threads |-> IdleThread]
    /\ seen = <<>>
    /\ enabled = DEBUG_ENABLED_Initially /\ last = NoLast /\ inKind = ValidInput
    /\ BridgeIdle /\ FnIdle /\ PipeIdle
    /\ PoolIdle /\ RetryIdle /\ RepoIdle
    /\ clock = FirstDay

Busy == {t \in Threads : thr[t].op # ""}
LockFrame ==
    UNCHANGED <<pc, clock, enabled, last, inKind, bridgeVars, fnVars, pipeVars,
                poolVars, retryVars, repoVars>>

\* self.sessions.write().unwrap()
AcquireWrite(t) ==
    /\ pc = "threads" /\ thr[t].op = ""
    /\ Len(seen) + Cardinality(Busy) < MaxThreadOps
    /\ CanWrite(lock)
    /\ \E op \in WriteOps : thr' = [thr EXCEPT ![t] = [IdleThread EXCEPT !.op = op, !.at = 1]]
    /\ lock' = [lock EXCEPT !.writers = @ \cup {t}]
    /\ UNCHANGED <<sessions, seen>> /\ LockFrame

\* self.sessions.read().unwrap()
AcquireRead(t) ==
    /\ pc = "threads" /\ thr[t].op = ""
    /\ Len(seen) + Cardinality(Busy) < MaxThreadOps
    /\ CanRead(lock)
    /\ \E op \in ReadOps : thr' = [thr EXCEPT ![t] = [IdleThread EXCEPT !.op = op, !.at = 1]]
    /\ lock' = [lock EXCEPT !.readers = @ \cup {t}]
    /\ UNCHANGED <<sessions, seen>> /\ LockFrame

\* the next read or write of the operation; a clone remembers next to its
\* copy the store as the last whole write operation left it
Step(t) ==
    /\ pc = "threads" /\ thr[t].op # ""
    /\ thr[t].at <= Len(Program(thr[t].op))
    /\ LET r == MicroStep(sessions, FindSession(sessions, "s1"), thr[t], clock)
           w == IF thr[t].op = "get_session"
                THEN <<lock.whole[FindSession(sessions, "s1")]>> ELSE lock.whole
       IN  /\ sessions' = r.ss
           /\ thr' = [thr EXCEPT ![t] = [r.th EXCEPT !.whole =
                         IF thr[t].op \in ReadOps THEN w ELSE <<>>]]
    /\ UNCHANGED <<lock, seen>> /\ LockFrame

\* the operation returns and its guard is dropped
Release(t) ==
    /\ pc = "threads" /\ thr[t].op # ""
    /\ thr[t].at > Len(Program(thr[t].op))
    /\ seen' = Append(seen, [t |-> t, op |-> thr[t].op, val |-> thr[t].tmp,
                             snap |-> thr[t].snap, whole |-> thr[t].whole])
    /\ lock' = [writers |-> lock.writers \ {t}, readers |-> lock.readers \ {t},
                whole |-> IF t \in lock.writers THEN sessions ELSE lock.whole]
    /\ thr' = [thr EXCEPT ![t] = IdleThread]
    /\ UNCHANGED sessions /\ LockFrame

LockNext == \E t \in Threads : AcquireWrite(t) \/ AcquireRead(t) \/ Step(t) \/ Release(t)

SpecLock == LockInit /\ [][LockNext]_vars

\* C24: at most one writer is in the store and no reader is in it with a
\* writer; every snapshot a reader returned is the store as a whole write
\* operation left it, with completed_at set exactly when the status is not
\* Running.
C24_SnapshotsAreWhole ==
    /\ Cardinality(lock.writers) <= 1
    /\ lock.writers # {} => lock.readers = {}
    /\ \A k \in 1..Len(seen) :
          seen[k].op \in ReadOps
             => /\ seen[k].snap = seen[k].whole
                /\ \A i \in 1..Len(seen[k].snap) :
                      (seen[k].snap[i].completed_at # NoTime)
                         <=> (seen[k].snap[i].status # "Running")

\* a reader returned the session as complete_session left it, and a writer
\* is now half way through error_session
C24_Witness ==
    /\ \E k \in 1..Len(seen) :
          /\ seen[k].op = "get_session"
          /\ seen[k].snap[1].status = "Completed"
    /\ \E t \in Threads : thr[t].op = "error_session" /\ thr[t].at = 2

\* the values the next_step calls returned, in the order they returned
RECURSIVE StepsReturned(_)
StepsReturned(s) ==
    IF s = <<>> THEN <<>>
    ELSE IF Head(s).op = "next_step"
         THEN <<Head(s).val>> \o StepsReturned(Tail(s))
         ELSE StepsReturned(Tail(s))

\* C25: next_step returns 1 first and one more on every later call, so no
\* two calls return the same value, whatever the threads do; current_step
\* never decreases.
C25_StepsCountUp ==
    [][/\ \A j \in 1..Len(StepsReturned(seen')) : StepsReturned(seen')[j] = j
       /\ \A i \in 1..Len(sessions) :
             sessions'[i].current_step >= sessions[i].current_step]_vars

\* two threads have each called next_step; one got 1, the other 2
C25_Witness ==
    \E j, k \in 1..Len(seen) :
        /\ seen[j].op = "next_step" /\ seen[k].op = "next_step"
        /\ seen[j].t # seen[k].t
        /\ seen[j].val = 1 /\ seen[k].val = 2

(***************************************************************************)
(* NatsPool::get_client.  Every thread holds the pool or a clone of it;    *)
(* the two fetch_add are atomic and other threads run between them.        *)
(***************************************************************************)
\* AtomicUsize::fetch_add wraps around on overflow
WrapUsize(v) == v % (2 ^ UsizeBits)

\* the same, with the counter copied into every clone
IndexCell_Copied(t) == t

\* impl Clone for NatsPool: current_index: Arc::clone(&self.current_index),
\* every clone counts in the one cell of the pool it was cloned from
IndexCell(t) == 1

\* a pool as NatsPool::new returns it: max_connections clients, counters 0
PoolInit ==
    /\ pc = "pool"
    /\ clients \in 1..MaxClients
    /\ current_index = [c \in Threads |-> 0]
    /\ requests_served = 0
    /\ thr = [t \in Threads |-> IdleThread]
    /\ lock = NoLock /\ seen = <<>>
    /\ MainIdle /\ RetryIdle /\ RepoIdle

PoolFrame ==
    UNCHANGED <<pc, clock, bridgeVars, fnVars, pipeVars, dbgVars, lock, clients,
                retryVars, repoVars>>

\* get_client up to self.requests_served.fetch_add(1, Relaxed)
CountRequest(t) ==
    /\ pc = "pool" /\ thr[t].op = ""
    /\ Len(seen) + Cardinality(Busy) < MaxPoolCalls
    /\ clients # 0
    /\ requests_served' = WrapUsize(requests_served + 1)
    /\ thr' = [thr EXCEPT ![t] = [IdleThread EXCEPT !.op = "get_client", !.at = 1]]
    /\ UNCHANGED <<current_index, seen>> /\ PoolFrame

\* self.current_index.fetch_add(1, Relaxed) % self.clients.len(), and the
\* return of &self.clients[index]
PickClient(t) ==
    /\ pc = "pool" /\ thr[t].op = "get_client"
    /\ LET ticket == current_index[IndexCell(t)]
       IN  /\ current_index' = [current_index EXCEPT ![IndexCell(t)] = WrapUsize(ticket + 1)]
           /\ seen' = Append(seen, [op |-> "get_client", ticket |-> ticket,
                                    val |-> ticket % clients])
    /\ thr' = [thr EXCEPT ![t] = IdleThread]
    /\ UNCHANGED requests_served /\ PoolFrame

PoolNext == \E t \in Threads : CountRequest(t) \/ PickClient(t)

SpecPool == PoolInit /\ [][PoolNext]_vars

\* the k-th call took a counter value no earlier call took and returned
\* client number (k-1) mod n
KthCallInTurn(k) ==
    /\ seen[k].val = (k - 1) % clients
    /\ \A j \in 1..(k - 1) : seen[j].ticket # seen[k].ticket

\* C26 (as stated): the k-th call of get_client overall, whatever thread
\* and clone made it, takes a distinct counter value and returns client
\* number (k-1) mod n.
C26_RoundRobin == \A k \in 1..Len(seen) : KthCallInTurn(k)

\* C26 (amended): the same for the calls made before the counter wraps
\* around, that is for the first 2^UsizeBits calls.
C26_RoundRobinUntilWrap ==
    \A k \in 1..Len(seen) : k <= 2 ^ UsizeBits => KthCallInTurn(k)

\* two rounds over a pool of three clients have been served and a thread
\* is in the middle of the next call
C26_Witness ==
    /\ clients = 3
    /\ Len(seen) = 6
    /\ seen[4].val = 0 /\ seen[6].val = 2
    /\ Busy # {}

(***************************************************************************)
(* Retry loops: create_client_with_retry of the NATS client and            *)
(* execute_with_retry of the data source client.  req holds the arguments, *)
(* tries what every attempt did, slept the delays, returned the result.    *)
(***************************************************************************)
\* NatsError::is_retriable
is_retriable(e) == e \in {"ConnectionError", "PublishError", "TimeoutError", "IoError"}

\* what create_client returns: a client, or the error of validate, of
\* apply_auth or of connect
ConnectOutcomes == {"Ok", "ConfigError", "AuthError", "ConnectionError"}

\* config.reconnect_delay_ms * 2_u64.pow(attempt as u32): the product, and
\* whether the power or the product leaves the u64
BackoffOverflows(delay_ms, attempt) ==
    2 ^ attempt >= 2 ^ U64Bits \/ delay_ms * (2 ^ attempt) >= 2 ^ U64Bits
BackoffDelay(delay_ms, attempt) ==
    (delay_ms * ((2 ^ attempt) % (2 ^ U64Bits))) % (2 ^ U64Bits)

\* the arguments of create_client_with_retry; an overflow panics in a build
\* with overflow checks and wraps around in a build without
NatsCalls ==
    [kind : {"nats"}, max_retries : 0..MaxRetries, reconnect_delay_ms : {0, 1},
     retry_enabled : {TRUE}, build : {"checked", "wrapping"}]
\* the arguments of execute_with_retry
HttpCalls ==
    [kind : {"http"}, max_retries : 0..MaxRetries, reconnect_delay_ms : {0},
     retry_enabled : BOOLEAN, build : {"wrapping"}]

RetryInit ==
    /\ pc = "retry"
    /\ req \in NatsCalls \cup HttpCalls
    /\ attempts = 0 /\ tries = <<>> /\ slept = <<>> /\ returned = ""
    /\ MainIdle /\ LockIdle /\ PoolIdle /\ RepoIdle

RetryFrame ==
    UNCHANGED <<pc, req, clock, bridgeVars, fnVars, pipeVars, dbgVars, lockVars,
                poolVars, repoVars>>

\* one turn of `for attempt in 0..=max_retries`: create_client, and after a
\* retriable error the backoff sleep when another attempt follows
ConnectAttempt ==
    /\ pc = "retry" /\ req.kind = "nats" /\ returned = ""
    /\ attempts <= req.max_retries
    /\ \E o \in ConnectOutcomes :
          /\ tries' = Append(tries, o)
          /\ IF o = "Ok" \/ ~is_retriable(o)
             THEN returned' = o /\ UNCHANGED <<attempts, slept>>
             ELSE IF attempts < req.max_retries
                     /\ BackoffOverflows(req.reconnect_delay_ms, attempts)
                     /\ req.build = "checked"
             THEN returned' = "panic" /\ UNCHANGED <<attempts, slept>>
             ELSE /\ attempts' = attempts + 1
                  /\ slept' = IF attempts < req.max_retries
                              THEN Append(slept,
                                      BackoffDelay(req.reconnect_delay_ms, attempts))
                              ELSE slept
                  /\ UNCHANGED returned
    /\ RetryFrame

\* after the loop: Err(last_error)
ConnectGiveUp ==
    /\ pc = "retry" /\ req.kind = "nats" /\ returned = ""
    /\ attempts > req.max_retries
    /\ returned' = tries[Len(tries)]
    /\ UNCHANGED <<attempts, tries, slept>> /\ RetryFrame

\* what request.try_clone().send() gives: a response with a success status,
\* a response with another status, or an error.  The request is built from
\* a url, headers and a JSON body, so it can be cloned.
SendOutcomes == {"success", "failed_status", "send_error"}

\* one turn of the loop of execute_with_retry
HttpSend ==
    /\ pc = "retry" /\ req.kind = "http" /\ returned = ""
    /\ \E o \in SendOutcomes :
          /\ tries' = Append(tries, o)
          /\ IF o = "success" \/ ~req.retry_enabled \/ attempts >= req.max_retries
             THEN returned' = o /\ UNCHANGED <<attempts, slept>>
             ELSE /\ attempts' = attempts + 1
                  /\ IF attempts + 1 < req.max_retries
                     THEN /\ slept' = Append(slept, 1000 * (attempts + 1))
                          /\ UNCHANGED returned
                     ELSE returned' = o /\ UNCHANGED slept
    /\ RetryFrame

RetryNext == ConnectAttempt \/ ConnectGiveUp \/ HttpSend

SpecRetry == RetryInit /\ [][RetryNext]_vars

\* C27: create_client_with_retry makes at most max_retries + 1 attempts and
\* sleeps only between attempts; what it returns is the client of the first
\* successful attempt, or the non-retriable error of the attempt that just
\* failed, or the last retriable error after attempt max_retries + 1.
C27_RetryReturnsLastError ==
    req.kind = "nats" =>
        /\ Len(tries) <= req.max_retries + 1
        /\ Len(slept) <= Len(tries)
        /\ returned # "" =>
              /\ Len(slept) < Len(tries)
              /\ returned = tries[Len(tries)]
              /\ \A i \in 1..(Len(tries) - 1) : is_retriable(tries[i])
              /\ is_retriable(returned) => Len(tries) = req.max_retries + 1

\* C30: with retry enabled and max_retries = N, a request whose every
\* attempt fails is sent N + 1 times and the last failure is returned; with
\* retry disabled it is sent once; a success is returned at once.
C30_SendsOncePlusRetries ==
    (req.kind = "http" /\ returned # "") =>
        /\ returned = tries[Len(tries)]
        /\ \A i \in 1..(Len(tries) - 1) : tries[i] # "success"
        /\ ~req.retry_enabled => Len(tries) = 1
        /\ (req.retry_enabled /\ returned # "success")
              => Len(tries) = req.max_retries + 1

(***************************************************************************)
(* The rule repository: rule_save, rule_activate and rule_delete over the  *)
(* tables rule_definitions and rule_versions.  rule_versions[n] holds the  *)
(* rows of rule n in the order of created_at; version v stands for the     *)
(* version string 1.0.(v - 1), and 0 for no version argument.  Every call  *)
(* is one statement of its own transaction: a call that returns Err        *)
(* leaves the tables as they were.                                         *)
(***************************************************************************)
RuleNames == {"r1", "r2"}
Versions == 1..MaxVersions
NoVersion == 0

Row(v, d) == [version |-> v, is_default |-> d]
VersionsOf(rows) == {rows[i].version : i \in DOMAIN rows}
HasDefault(rows) == \E i \in DOMAIN rows : rows[i].is_default
IsDefault(rows, v) ==
    \E i \in DOMAIN rows : rows[i].version = v /\ rows[i].is_default

\* SELECT NOT EXISTS(SELECT 1 FROM rule_versions WHERE rule_id = $1)
is_first_version_Never(rows) == FALSE
is_first_version(rows) == rows = <<>>

\* the version number of rule_save: the argument, or with no argument the
\* latest version with its patch number incremented, 1.0.0 for the first
version_number(rows, version) ==
    IF version # NoVersion THEN version
    ELSE IF rows = <<>> THEN 1
    ELSE rows[Len(rows)].version + 1

\* the trigger of the schema on rule_versions: setting is_default on one
\* row unsets it on the other rows of the rule
UnsetOtherDefaults(rows, v) ==
    [i \in DOMAIN rows |-> Row(rows[i].version, rows[i].version = v)]

RECURSIVE DeleteVersion(_, _)
\* DELETE FROM rule_versions ... WHERE rd.name = $1 AND rv.version = $2
DeleteVersion(rows, v) ==
    IF rows = <<>> THEN <<>>
    ELSE IF Head(rows).version = v THEN DeleteVersion(Tail(rows), v)
    ELSE <<Head(rows)>> \o DeleteVersion(Tail(rows), v)

\* ON DELETE CASCADE of rule_versions.rule_id: the versions go with the rule
CascadeDelete(table, name) == [table EXCEPT ![name] = <<>>]

Reply(op, name, version, ok) ==
    [op |-> op, name |-> name, version |-> version, ok |-> ok]

RepoInit ==
    /\ pc = "repo"
    /\ rule_definitions = {}
    /\ rule_versions = [n \in RuleNames |-> <<>>]
    /\ reply = NoReply
    /\ MainIdle /\ LockIdle /\ PoolIdle /\ RetryIdle

RepoFrame ==
    UNCHANGED <<pc, clock, bridgeVars, fnVars, pipeVars, dbgVars, lockVars,
                poolVars, retryVars>>

rule_save(name, version) ==
    LET rows == rule_versions[name]
        v == version_number(rows, version)
    IN  /\ pc = "repo"
        /\ v \in Versions
        /\ IF v \in VersionsOf(rows)
           THEN /\ reply' = Reply("rule_save", name, version, FALSE)
                /\ UNCHANGED <<rule_definitions, rule_versions>>
           ELSE /\ rule_definitions' = rule_definitions \cup {name}
                /\ rule_versions' =
                      [rule_versions EXCEPT
                          ![name] = Append(rows, Row(v, is_first_version(rows)))]
                /\ reply' = Reply("rule_save", name, version, TRUE)
        /\ RepoFrame

rule_activate(name, version) ==
    LET rows == rule_versions[name]
    IN  /\ pc = "repo"
        /\ IF name \in rule_definitions /\ version \in VersionsOf(rows)
           THEN /\ rule_versions' =
                      [rule_versions EXCEPT
                          ![name] = UnsetOtherDefaults(rows, version)]
                /\ reply' = Reply("rule_activate", name, version, TRUE)
           ELSE /\ reply' = Reply("rule_activate", name, version, FALSE)
                /\ UNCHANGED rule_versions
        /\ UNCHANGED rule_definitions
        /\ RepoFrame

rule_delete(name, version) ==
    LET rows == rule_versions[name]
    IN  /\ pc = "repo"
        /\ IF version # NoVersion
           THEN IF IsDefault(rows, version)
                THEN /\ reply' = Reply("rule_delete", name, version, FALSE)
                     /\ UNCHANGED <<rule_definitions, rule_versions>>
                ELSE /\ rule_versions' =
                           [rule_versions EXCEPT
                               ![name] = DeleteVersion(rows, version)]
                     /\ reply' = Reply("rule_delete", name, version, TRUE)
                     /\ UNCHANGED rule_definitions
           ELSE /\ rule_definitions' = rule_definitions \ {name}
                /\ rule_versions' = CascadeDelete(rule_versions, name)
                /\ reply' = Reply("rule_delete", name, version, TRUE)
        /\ RepoFrame

RuleSave == \E n \in RuleNames, v \in Versions \cup {NoVersion} : rule_save(n, v)
RuleActivate == \E n \in RuleNames, v \in Versions : rule_activate(n, v)
RuleDelete == \E n \in RuleNames, v \in Versions \cup {NoVersion} : rule_delete(n, v)

RepoNext == RuleSave \/ RuleActivate \/ RuleDelete

SpecRepo == RepoInit /\ [][RepoNext]_vars

\* the rows of the rule the last call was about, before and after the call
RowsBefore == rule_versions[reply'.name]
RowsAfter == rule_versions'[reply'.name]

\* C29: after every call of rule_save, rule_activate or rule_delete every
\* rule with a stored version has a default version; the row a successful
\* rule_save stores is the default exactly when it is the first version of
\* the rule; and rule_delete of the version that is the default fails and
\* changes neither table.
C29_DefaultVersionKept ==
    [][/\ \A n \in RuleNames : rule_versions'[n] # <<>> => HasDefault(rule_versions'[n])
       /\ (reply'.op = "rule_save" /\ reply'.ok) =>
             /\ Len(RowsAfter) = Len(RowsBefore) + 1
             /\ RowsAfter[Len(RowsAfter)].is_default = (RowsBefore = <<>>)
       /\ (reply'.op = "rule_delete" /\ reply'.version # NoVersion
             /\ IsDefault(RowsBefore, reply'.version)) =>
             /\ ~reply'.ok
             /\ rule_versions' = rule_versions
             /\ rule_definitions' = rule_definitions]_vars

\* a rule with two versions, the second one activated, and the delete of
\* that default version just refused
C29_Witness ==
    /\ pc = "repo"
    /\ reply = Reply("rule_delete", "r1", 2, FALSE)
    /\ rule_versions["r1"] = <<Row(1, FALSE), Row(2, TRUE)>>

====
